---- MODULE Spec2Model ----
(***************************************************************************)
(* Model of spin-test: the composition builder and the HTTP helper host    *)
(* (src/src/main.rs) and the conformance-test runner                       *)
(* (src/conformance-tests/src/main.rs).                                    *)
(*                                                                         *)
(* Five specifications share the variables below:                          *)
(*   SpecChan   the response channel behind new_response / get / drop      *)
(*   SpecComp   Composition::instantiate, Instance::export and             *)
(*              encode_composition over a wac_graph composition graph      *)
(*   SpecAssert the conformance runner's assertions on one response        *)
(*   SpecRun    the conformance runner's test and invocation loops         *)
(*   SpecBridge Host::new_request on an outgoing request                   *)
(* Text is modelled as sequences of byte values.                           *)
(***************************************************************************)
EXTENDS Integers, Sequences, FiniteSets, TLC

VARIABLES
    \* ---- response channel (src/src/main.rs) ----
    receivers,   \* resource table: receiver id -> "absent" | "live" | "deleted"
    chan,        \* receiver id -> state of its oneshot channel
    respTable,   \* resource table: pushed HostOutgoingResponse values, by handle
    polls,       \* receiver id -> results of the get calls made on it, in order
    sent,        \* receiver id -> what the outparam produced, NoValue if nothing
    \* ---- composition (src/src/main.rs) ----
    driver,      \* who calls the Composition: "api" (any caller) | "encode_composition"
    inputs,      \* the component binaries encode_composition works on
    graph,       \* the wac_graph::CompositionGraph behind the Composition
    handles,     \* Instance and Export handles the caller holds
    pc,          \* encode_composition's position
    lastCall,    \* the last Composition / Instance call and its result
    artifact,    \* what encode returned, NoArtifact before
    \* ---- conformance runner (src/conformance-tests/src/main.rs) ----
    rpc,         \* the runner's position in main
    invocation,  \* the invocation being run
    response,    \* the response the receiver delivered for it
    body,        \* the decoded response body
    outcome,     \* how the invocation ended, NoOutcome while it runs
    testNo,      \* how many tests the loop over tests has started
    scenario,    \* test.config.invocations of the test being run
    invNo,       \* how many invocations of the scenario have been started
    request,     \* the outgoing request built for the invocation
    rchan,       \* the channels the guest made in the test's store, by handle
    pair,        \* the (outparam, receiver) handles main holds for the invocation
    tests,       \* how many test artifacts the run holds
    \* ---- request conversion (src/src/main.rs) ----
    hreq,        \* the HostOutgoingRequest held in the resource table
    converted    \* results of the new_request calls made on it, in order

chanVars == <<receivers, chan, respTable, polls, sent>>
otherThanChan == <<driver, inputs, graph, handles, pc, lastCall, artifact,
                   rpc, invocation, response, body, outcome,
                   testNo, scenario, invNo, request, rchan, pair, tests,
                   hreq, converted>>
compVars == <<driver, inputs, graph, handles, pc, lastCall, artifact>>
assertVars == <<rpc, invocation, response, body, outcome>>
flowVars == <<testNo, scenario, invNo, request, rchan, pair, tests>>
bridgeVars == <<hreq, converted>>

vars == <<receivers, chan, respTable, polls, sent,
          driver, inputs, graph, handles, pc, lastCall, artifact,
          rpc, invocation, response, body, outcome,
          testNo, scenario, invNo, request, rchan, pair, tests,
          hreq, converted>>

(***************************************************************************)
(* Bounds                                                                  *)
(***************************************************************************)
MaxReceivers == 2
MaxPolls == 2
MaxArgs == 2
MaxExpected == 2
MaxActual == 2
MaxTests == 2
MaxInvocations == 2
MaxConversions == 2

(***************************************************************************)
(* Response channel: tokio oneshot behind new_response                     *)
(***************************************************************************)
None == [some |-> FALSE, v |-> <<>>]
Some(v) == [some |-> TRUE, v |-> v]

\* The response a handler produced: status, header entries in order, body
\* bytes, and whether reading the body stream works.
Response(status, headers, bytes, stream) ==
    [status |-> status, headers |-> headers, body |-> bytes, stream |-> stream]
NoResponse == Response(0, <<>>, <<>>, "none")

NoValue == [tag |-> "none", resp |-> NoResponse, code |-> "none"]

\* Result<hyper::Response, ErrorCode>: what the outparam can be set to.
OkValue(resp) == [tag |-> "ok", resp |-> resp, code |-> "none"]
ErrValue(c) == [tag |-> "err", resp |-> NoResponse, code |-> c]

ChanStatuses == {200, 500}
ChanCodes == {"internal-error"}
ChanValues ==
    {OkValue(Response(s, <<>>, <<s>>, "ok")) : s \in ChanStatuses}
        \cup {ErrValue(c) : c \in ChanCodes}

\* tokio::sync::oneshot::channel(): sender alive, slot empty, receiver attached.
NewChannel == [tx |-> "live", value |-> NoValue, rxInner |-> TRUE]

\* Receiver::try_recv: Empty while the sender is alive and nothing was sent;
\* the value when one is in the slot; Closed when the sender is gone without
\* a value or the receiver already detached itself. Any result but Empty
\* detaches the receiver from the channel.
TryRecv(c) ==
    IF c.rxInner
    THEN IF c.tx = "live"
         THEN [res |-> "Empty", value |-> NoValue, chan |-> c]
         ELSE IF c.value.tag # "none"
              THEN [res |-> "Ok", value |-> c.value,
                    chan |-> [c EXCEPT !.value = NoValue, !.rxInner = FALSE]]
              ELSE [res |-> "Closed", value |-> NoValue,
                    chan |-> [c EXCEPT !.rxInner = FALSE]]
    ELSE [res |-> "Closed", value |-> NoValue, chan |-> c]

\* The results a get call can have.
Pending == [kind |-> "Pending", handle |-> 0, code |-> "none"]
Ready(h) == [kind |-> "Ready", handle |-> h, code |-> "none"]
Failed(c) == [kind |-> "Failed", handle |-> 0, code |-> c]
ProducerDropped == [kind |-> "ProducerDropped", handle |-> 0, code |-> "none"]

\* What get returns for the outcome of try_recv; h is the handle the table
\* would give a pushed response.
GetResultDropAsPending(t, h) ==
    CASE t.res = "Empty" -> Pending
      [] t.res = "Closed" -> Pending
      [] t.res = "Ok" /\ t.value.tag = "err" -> Failed(t.value.code)
      [] OTHER -> Ready(h)

GetResult(t, h) ==
    CASE t.res = "Empty" -> Pending
      [] t.res = "Closed" -> ProducerDropped
      [] t.res = "Ok" /\ t.value.tag = "err" -> Failed(t.value.code)
      [] OTHER -> Ready(h)

\* response.into_parts() rebuilt as a HostOutgoingResponse.
HostOutgoingResponse(v) ==
    [status |-> v.resp.status, headers |-> v.resp.headers, body |-> Some(v.resp.body)]

ReceiverIds == 1..MaxReceivers

ChanStart ==
    /\ receivers = [r \in ReceiverIds |-> "absent"]
    /\ chan = [r \in ReceiverIds |-> NewChannel]
    /\ respTable = <<>>
    /\ polls = [r \in ReceiverIds |-> <<>>]
    /\ sent = [r \in ReceiverIds |-> NoValue]

\* Host::new_response: a fresh channel, its sender in a new outparam, its
\* receiver pushed to the table.
Host_new_response ==
    \E r \in ReceiverIds :
        /\ receivers[r] = "absent"
        /\ \A q \in ReceiverIds : q < r => receivers[q] # "absent"
        /\ receivers' = [receivers EXCEPT ![r] = "live"]
        /\ chan' = [chan EXCEPT ![r] = NewChannel]
        /\ UNCHANGED <<respTable, polls, sent>>
        /\ UNCHANGED otherThanChan

\* The handler path sets the outparam: the sender sends its one value.
OutparamSet ==
    \E r \in ReceiverIds, v \in ChanValues :
        /\ receivers[r] # "absent"
        /\ chan[r].tx = "live"
        \* send hands the value back when the receiver is already gone
        /\ chan' = [chan EXCEPT ![r] = [@ EXCEPT !.tx = "sent",
                        !.value = IF receivers[r] = "live" THEN v ELSE NoValue]]
        /\ sent' = [sent EXCEPT ![r] = v]
        /\ UNCHANGED <<receivers, respTable, polls>>
        /\ UNCHANGED otherThanChan

\* The handler path drops the outparam without setting it.
OutparamDrop ==
    \E r \in ReceiverIds :
        /\ receivers[r] # "absent"
        /\ chan[r].tx = "live"
        /\ chan' = [chan EXCEPT ![r] = [@ EXCEPT !.tx = "dropped"]]
        /\ UNCHANGED <<receivers, respTable, polls, sent>>
        /\ UNCHANGED otherThanChan

\* HostResponseReceiver::get
HostResponseReceiver_get ==
    \E r \in ReceiverIds :
        /\ receivers[r] = "live"
        /\ Len(polls[r]) < MaxPolls
        /\ LET t == TryRecv(chan[r])
               res == GetResult(t, Len(respTable) + 1)
           IN /\ chan' = [chan EXCEPT ![r] = t.chan]
              /\ respTable' = IF res.kind = "Ready"
                              THEN Append(respTable, HostOutgoingResponse(t.value))
                              ELSE respTable
              /\ polls' = [polls EXCEPT ![r] = Append(@, res)]
        /\ UNCHANGED <<receivers, sent>>
        /\ UNCHANGED otherThanChan

\* HostResponseReceiver::drop
HostResponseReceiver_drop ==
    \E r \in ReceiverIds :
        /\ receivers[r] = "live"
        /\ receivers' = [receivers EXCEPT ![r] = "deleted"]
        /\ chan' = [chan EXCEPT ![r] = [@ EXCEPT !.rxInner = FALSE]]
        /\ UNCHANGED <<respTable, polls, sent>>
        /\ UNCHANGED otherThanChan

NextChan ==
    \/ Host_new_response
    \/ OutparamSet
    \/ OutparamDrop
    \/ HostResponseReceiver_get
    \/ HostResponseReceiver_drop


(***************************************************************************)
(* Composition graph: wac_graph as used by Composition and Instance        *)
(***************************************************************************)
KeyValue == "fermyon:spin/key-value@2.0.0"
Llm == "fermyon:spin/llm@2.0.0"
Redis == "fermyon:spin/redis@2.0.0"
Mysql == "fermyon:spin/mysql@2.0.0"
Postgres == "fermyon:spin/postgres@2.0.0"
Sqlite == "fermyon:spin/sqlite@2.0.0"
Mqtt == "fermyon:spin/mqtt@2.0.0"
Variables == "fermyon:spin/variables@2.0.0"
OutgoingHandler == "wasi:http/outgoing-handler@0.2.0"
IncomingHandler == "wasi:http/incoming-handler@0.2.0"
SetComponentId == "set-component-id"
KeyValueCalls == "fermyon:spin-test-virt/key-value-calls"
HttpHandler == "fermyon:spin-test-virt/http-handler"
Run == "run"

\* Interface types: two imports/exports of one name link iff their types
\* are equal. Canon is the type every name has in a well-built component,
\* Other a type incompatible with it.
Canon == "canon"
Other == "other"
Items(names, ty) == {<<n, ty>> : n \in names}

\* A component binary: whether it parses, and the imports and exports
\* (name, type) of the component it holds.
Package(valid, imports, exports) ==
    [valid |-> valid, imports |-> imports, exports |-> exports]
NoPackage == Package(FALSE, {}, {})

HasItem(items, n) == \E e \in items : e[1] = n
ItemTy(items, n) == (CHOOSE e \in items : e[1] = n)[2]

\* Graph nodes: an instantiation of a registered package, or an alias of
\* one export of an instance.
InstNode(pname, pkg) ==
    [kind |-> "inst", pname |-> pname, pkg |-> pkg, src |-> 0, name |-> "", ty |-> ""]
AliasNode(src, name, ty) ==
    [kind |-> "alias", pname |-> "", pkg |-> NoPackage, src |-> src, name |-> name, ty |-> ty]

\* CompositionGraph::new()
NewGraph == [nodes |-> <<>>, edges |-> {}, registered |-> {}, exported |-> {}]

\* An argument edge drawn from the instantiation to the argument.
ArgEdgeReversed(src, dst, arg) == [src |-> dst, dst |-> src, arg |-> arg]

ArgEdge(src, dst, arg) == [src |-> src, dst |-> dst, arg |-> arg]

\* CompositionGraph::alias_instance_export: the alias node of the export
\* `name` of instance `inst`, created on first use; InstanceMissingExport
\* when the instance's package has no such export.
alias_instance_export(g, inst, name) ==
    LET pkg == g.nodes[inst].pkg
        existing == {i \in DOMAIN g.nodes :
                        /\ g.nodes[i].kind = "alias"
                        /\ g.nodes[i].src = inst
                        /\ g.nodes[i].name = name}
    IN IF ~HasItem(pkg.exports, name)
       THEN [g |-> g, err |-> "InstanceMissingExport", node |-> 0]
       ELSE IF existing # {}
            THEN [g |-> g, err |-> "", node |-> CHOOSE i \in existing : TRUE]
            ELSE [g |-> [g EXCEPT !.nodes =
                            Append(@, AliasNode(inst, name, ItemTy(pkg.exports, name)))],
                  err |-> "", node |-> Len(g.nodes) + 1]

\* CompositionGraph::set_instantiation_argument
set_instantiation_argument(g, inst, argName, argNode) ==
    LET pkg == g.nodes[inst].pkg
        passed == {e \in g.edges : e.dst = inst /\ e.arg = argName}
    IN IF ~HasItem(pkg.imports, argName)
       THEN [g |-> g, err |-> "InvalidArgumentName"]
       ELSE IF g.nodes[argNode].ty # ItemTy(pkg.imports, argName)
            THEN [g |-> g, err |-> "ArgumentTypeMismatch"]
            ELSE IF passed # {}
                 THEN IF \E e \in passed : e.src = argNode
                      THEN [g |-> g, err |-> ""]
                      ELSE [g |-> g, err |-> "ArgumentAlreadyPassed"]
                 ELSE [g |-> [g EXCEPT !.edges = @ \cup {ArgEdge(argNode, inst, argName)}],
                       err |-> ""]

\* Instance::export with a missing export passed on as an error.
Instance_exportMissingIsError(g, inst, name) ==
    LET a == alias_instance_export(g, inst, name)
    IN IF a.err = "InstanceMissingExport"
       THEN [g |-> a.g, res |-> "Err", node |-> 0]
       ELSE [g |-> a.g, res |-> "Some", node |-> a.node]

\* Instance::export: Ok(None) when the export is missing, Ok(Some(export))
\* otherwise.
Instance_export(g, inst, name) ==
    LET a == alias_instance_export(g, inst, name)
    IN IF a.err = "InstanceMissingExport"
       THEN [g |-> a.g, res |-> "None", node |-> 0]
       ELSE [g |-> a.g, res |-> "Some", node |-> a.node]

\* An item of the `arguments` iterator of instantiate: an Export the caller
\* already holds, or (lazy) the `v.export(k).unwrap().unwrap()` that
\* encode_composition maps over its tables, evaluated when the loop of
\* instantiate asks for the item; then `node` is the instance v.
Arg(name, node) == [name |-> name, lazy |-> FALSE, node |-> node]
LazyArg(name, inst) == [name |-> name, lazy |-> TRUE, node |-> inst]

\* Which errors of set_instantiation_argument the loop of instantiate
\* passes over.
ToleratedNothing(err) == err = ""
ToleratedEverything(err) == TRUE
Tolerated(err) == err = "" \/ err = "InvalidArgumentName"

\* The loop of Composition::instantiate passing over an argument whose
\* provider has no such export.
RECURSIVE WireArgumentsSkippingAbsent(_, _, _, _)
WireArgumentsSkippingAbsent(g, inst, args, i) ==
    IF i > Len(args)
    THEN [g |-> g, res |-> "Ok", err |-> "", node |-> inst, at |-> 0]
    ELSE LET looked == IF args[i].lazy
                       THEN Instance_export(g, args[i].node, args[i].name)
                       ELSE [g |-> g, res |-> "Some", node |-> args[i].node]
         IN IF looked.res = "None"
            THEN WireArgumentsSkippingAbsent(looked.g, inst, args, i + 1)
            ELSE LET set == set_instantiation_argument(
                                looked.g, inst, args[i].name, looked.node)
                 IN IF Tolerated(set.err)
                    THEN WireArgumentsSkippingAbsent(set.g, inst, args, i + 1)
                    ELSE [g |-> set.g, res |-> "Err", err |-> set.err,
                          node |-> 0, at |-> i]

\* The loop of Composition::instantiate over arguments i.. of args.
RECURSIVE WireArguments(_, _, _, _)
WireArguments(g, inst, args, i) ==
    IF i > Len(args)
    THEN [g |-> g, res |-> "Ok", err |-> "", node |-> inst, at |-> 0]
    ELSE LET looked == IF args[i].lazy
                       THEN Instance_export(g, args[i].node, args[i].name)
                       ELSE [g |-> g, res |-> "Some", node |-> args[i].node]
         IN IF looked.res = "None"
            THEN [g |-> looked.g, res |-> "Panic", err |-> "unwrap on None",
                  node |-> 0, at |-> i]
            ELSE LET set == set_instantiation_argument(
                                looked.g, inst, args[i].name, looked.node)
                 IN IF Tolerated(set.err)
                    THEN WireArguments(set.g, inst, args, i + 1)
                    ELSE [g |-> set.g, res |-> "Err", err |-> set.err,
                          node |-> 0, at |-> i]

\* Composition::instantiate
instantiate(g, pname, bytes, args) ==
    IF ~bytes.valid
    THEN [g |-> g, res |-> "Err", err |-> "malformed package", node |-> 0, at |-> 0]
    ELSE IF pname \in g.registered
         THEN [g |-> g, res |-> "Err", err |-> "PackageAlreadyRegistered",
               node |-> 0, at |-> 0]
         ELSE LET g1 == [g EXCEPT !.registered = @ \cup {pname},
                                  !.nodes = Append(@, InstNode(pname, bytes))]
              IN WireArguments(g1, Len(g.nodes) + 1, args, 1)

\* Composition::export
Composition_export(g, node, name) ==
    IF \E e \in g.exported : e[2] = name
    THEN [g |-> g, err |-> "ExportAlreadyExists"]
    ELSE [g |-> [g EXCEPT !.exported = @ \cup {<<node, name>>}], err |-> ""]

\* Composition::encode: the artifact holds the graph as it is, or the error
\* of CompositionGraph::encode is handed on by the ? of line 170. The
\* library refuses a graph with a cycle and a graph whose unsatisfied
\* imports conflict; the latter depends on the types of the imports, which
\* the packages here do not carry, so the refusal is an input of the call.
NoArtifact == [encoded |-> FALSE, graph |-> NewGraph]
encode(g, refused) ==
    IF refused THEN [res |-> "Err", artifact |-> NoArtifact]
    ELSE [res |-> "Ok", artifact |-> [encoded |-> TRUE, graph |-> g]]

\* The instantiation node of a package, as held in a local of
\* encode_composition.
InstanceOf(g, pname) ==
    CHOOSE i \in DOMAIN g.nodes : g.nodes[i].kind = "inst" /\ g.nodes[i].pname = pname

NoCall == [op |-> "none", pname |-> "", pkg |-> NoPackage, args |-> <<>>,
           inst |-> 0, name |-> "", res |-> "", err |-> "", node |-> 0, at |-> 0]
InstantiateCall(pname, bytes, args, r) ==
    [op |-> "instantiate", pname |-> pname, pkg |-> bytes, args |-> args,
     inst |-> 0, name |-> "", res |-> r.res, err |-> r.err, node |-> r.node, at |-> r.at]
ExportCall(inst, name, r) ==
    [op |-> "export", pname |-> "", pkg |-> NoPackage, args |-> <<>>,
     inst |-> inst, name |-> name, res |-> r.res, err |-> "", node |-> r.node, at |-> 0]

(***************************************************************************)
(* Callers of the Composition                                              *)
(***************************************************************************)
\* Sequences of length at most n over the set S.
RECURSIVE SeqsUpTo(_, _)
SeqsUpTo(S, n) ==
    IF n = 0 THEN {<<>>}
    ELSE LET shorter == SeqsUpTo(S, n - 1)
         IN shorter \cup {Append(q, x) : q \in {t \in shorter : Len(t) = n - 1}, x \in S}

\* Inputs of an arbitrary caller of the Composition API.
PkgNames == {"provider", "consumer"}
Provider == Package(TRUE, {}, Items({KeyValue, OutgoingHandler}, Canon))
Consumer == Package(TRUE, Items({KeyValue}, Canon), {})
Mismatched ==
    Package(TRUE, {<<KeyValue, Other>>, <<OutgoingHandler, Canon>>},
            Items({KeyValue}, Canon))
Malformed == Package(FALSE, {}, {})
ApiPackages == {Provider, Consumer, Mismatched, Malformed}
ApiArgNames == {KeyValue, OutgoingHandler, Llm}
ApiExportNames == {KeyValue, OutgoingHandler, Run}
\* The argument lists tried with a package name and binary: instantiate
\* rejects a malformed binary and a registered name before it looks at the
\* arguments, so those calls are tried with no arguments only.
ApiArgLists(g, pname, bytes, exports) ==
    IF ~bytes.valid \/ pname \in g.registered
    THEN {<<>>}
    ELSE SeqsUpTo({Arg(n, e) : n \in ApiArgNames, e \in exports}, MaxArgs)

\* Inputs of encode_composition: the embedded shim, WASI shim and router,
\* and the app and test binaries read from disk.
AppCapabilities ==
    <<KeyValue, Llm, Redis, Mysql, Postgres, Sqlite, Mqtt, Variables, OutgoingHandler>>
RouterCapabilities == <<SetComponentId, IncomingHandler>>
TestCapabilities ==
    <<IncomingHandler, OutgoingHandler, KeyValue, KeyValueCalls, HttpHandler>>
Range(q) == {q[i] : i \in DOMAIN q}

VirtExports == Range(AppCapabilities) \cup {SetComponentId, KeyValueCalls, HttpHandler}
VirtPackages ==
    {Package(TRUE, {}, Items(VirtExports \ missing, Canon)) :
        missing \in {{}} \cup {{n} : n \in VirtExports}}
WasiVirtPackage == Package(TRUE, {}, Items({"wasi:cli/environment@0.2.0"}, Canon))
AppImportChoices ==
    { {},
      Items({KeyValue}, Canon),
      Items({KeyValue, OutgoingHandler, "wasi:cli/environment@0.2.0"}, Canon),
      Items(Range(AppCapabilities), Canon),
      {<<KeyValue, Canon>>, <<Redis, Other>>, <<OutgoingHandler, Canon>>} }
AppPackages ==
    {Package(v, i, e) : v \in BOOLEAN, i \in AppImportChoices,
                        e \in {{}, Items({IncomingHandler}, Canon)}}
RouterPackages ==
    {Package(TRUE, Items({SetComponentId}, Canon) \cup {<<IncomingHandler, t>>},
             Items({IncomingHandler}, Canon)) : t \in {Canon, Other}}
TestImportChoices ==
    { Items(Range(TestCapabilities), Canon),
      Items({IncomingHandler}, Canon),
      Items({IncomingHandler, KeyValue}, Canon) \cup {<<HttpHandler, Other>>} }
TestPackages ==
    {Package(v, i, e) : v \in BOOLEAN, i \in TestImportChoices,
                        e \in {{}, Items({Run}, Canon)}}

NoInputs == [virt |-> NoPackage, wasi_virt |-> NoPackage, app |-> NoPackage,
             router |-> NoPackage, test |-> NoPackage]
NoHandles == [instances |-> {}, exports |-> {}]

InitComp ==
    /\ driver \in {"api", "encode_composition"}
    /\ IF driver = "api"
       THEN inputs = NoInputs /\ pc = "api"
       ELSE /\ inputs \in [virt : VirtPackages, wasi_virt : {WasiVirtPackage},
                           app : AppPackages, router : RouterPackages,
                           test : TestPackages]
            /\ pc = "virt"
    /\ graph = NewGraph
    /\ handles = NoHandles
    /\ lastCall = NoCall
    /\ artifact = NoArtifact

\* Any caller: composition.instantiate(pname, bytes, args) with Exports it holds.
ApiInstantiate ==
    /\ driver = "api"
    /\ \E pname \in PkgNames, bytes \in ApiPackages :
       \E args \in ApiArgLists(graph, pname, bytes, handles.exports) :
         LET r == instantiate(graph, pname, bytes, args)
         IN /\ graph' = r.g
            /\ handles' = IF r.res = "Ok"
                          THEN [handles EXCEPT !.instances = @ \cup {r.node}]
                          ELSE handles
            /\ lastCall' = InstantiateCall(pname, bytes, args, r)
    /\ UNCHANGED <<driver, inputs, pc, artifact>>
    /\ UNCHANGED <<bridgeVars, chanVars, assertVars, flowVars>>

\* Any caller: instance.export(name) on an Instance it holds.
ApiExport ==
    /\ driver = "api"
    /\ \E inst \in handles.instances, name \in ApiExportNames :
         LET r == Instance_export(graph, inst, name)
         IN /\ graph' = r.g
            /\ handles' = IF r.res = "Some"
                          THEN [handles EXCEPT !.exports = @ \cup {r.node}]
                          ELSE handles
            /\ lastCall' = ExportCall(inst, name, r)
    /\ UNCHANGED <<driver, inputs, pc, artifact>>
    /\ UNCHANGED <<bridgeVars, chanVars, assertVars, flowVars>>

\* The argument iterator built from one of encode_composition's tables:
\* row i is (name, provider instance).
LazyArgs(names, providerOf) ==
    [i \in DOMAIN names |-> LazyArg(names[i], providerOf[i])]

\* One `composition.instantiate(..).unwrap()` of encode_composition.
InstantiateStep(at, next, pname, bytes, args) ==
    /\ driver = "encode_composition"
    /\ pc = at
    /\ LET r == instantiate(graph, pname, bytes, args)
       IN /\ graph' = r.g
          /\ handles' = IF r.res = "Ok"
                        THEN [handles EXCEPT !.instances = @ \cup {r.node}]
                        ELSE handles
          /\ lastCall' = InstantiateCall(pname, bytes, args, r)
          /\ pc' = IF r.res = "Ok" THEN next ELSE "panicked"
    /\ UNCHANGED <<driver, inputs, artifact>>
    /\ UNCHANGED <<bridgeVars, chanVars, assertVars, flowVars>>

InstantiateVirt == InstantiateStep("virt", "wasi_virt", "virt", inputs.virt, <<>>)

InstantiateWasiVirt ==
    InstantiateStep("wasi_virt", "app", "wasi_virt", inputs.wasi_virt, <<>>)

InstantiateApp ==
    InstantiateStep("app", "router", "app", inputs.app,
        LazyArgs(AppCapabilities,
                 [i \in DOMAIN AppCapabilities |-> InstanceOf(graph, "virt")]))

InstantiateRouter ==
    InstantiateStep("router", "test", "router", inputs.router,
        LazyArgs(RouterCapabilities,
                 <<InstanceOf(graph, "virt"), InstanceOf(graph, "app")>>))

InstantiateTest ==
    InstantiateStep("test", "run", "test", inputs.test,
        LazyArgs(TestCapabilities,
                 <<InstanceOf(graph, "router"), InstanceOf(graph, "virt"),
                   InstanceOf(graph, "virt"), InstanceOf(graph, "virt"),
                   InstanceOf(graph, "virt")>>))

\* let export = test.export("run").unwrap().unwrap();
ExportRun ==
    /\ driver = "encode_composition"
    /\ pc = "run"
    /\ LET r == Instance_export(graph, InstanceOf(graph, "test"), Run)
       IN /\ graph' = r.g
          /\ handles' = IF r.res = "Some"
                        THEN [handles EXCEPT !.exports = @ \cup {r.node}]
                        ELSE handles
          /\ lastCall' = ExportCall(InstanceOf(graph, "test"), Run, r)
          /\ pc' = IF r.res = "Some" THEN "export" ELSE "panicked"
    /\ UNCHANGED <<driver, inputs, artifact>>
    /\ UNCHANGED <<bridgeVars, chanVars, assertVars, flowVars>>

\* composition.export(export, "run").unwrap();
MarkEntryPoint ==
    /\ driver = "encode_composition"
    /\ pc = "export"
    /\ LET r == Composition_export(graph, lastCall.node, Run)
       IN /\ graph' = r.g
          /\ pc' = IF r.err = "" THEN "encode" ELSE "panicked"
    /\ UNCHANGED <<driver, inputs, handles, lastCall, artifact>>
    /\ UNCHANGED <<bridgeVars, chanVars, assertVars, flowVars>>

\* composition.encode().unwrap()
Encode ==
    /\ driver = "encode_composition"
    /\ pc = "encode"
    /\ \E refused \in BOOLEAN :
          LET r == encode(graph, refused)
          IN /\ artifact' = r.artifact
             /\ pc' = IF r.res = "Ok" THEN "done" ELSE "panicked"
    /\ UNCHANGED <<driver, inputs, graph, handles, lastCall>>
    /\ UNCHANGED <<bridgeVars, chanVars, assertVars, flowVars>>

NextComp ==
    \/ ApiInstantiate
    \/ ApiExport
    \/ InstantiateVirt
    \/ InstantiateWasiVirt
    \/ InstantiateApp
    \/ InstantiateRouter
    \/ InstantiateTest
    \/ ExportRun
    \/ MarkEntryPoint
    \/ Encode

(***************************************************************************)
(* Conformance runner: text                                                *)
(***************************************************************************)
\* u8::to_ascii_lowercase: A..Z become a..z.
LowerByte(b) == IF b >= 65 /\ b <= 90 THEN b + 32 ELSE b
to_ascii_lowercase(t) == [i \in DOMAIN t |-> LowerByte(t[i])]

\* UTF-8 well-formedness, as String::from_utf8 checks it.
Cont(b) == b >= 128 /\ b <= 191
RECURSIVE ValidUtf8From(_, _)
ValidUtf8From(t, i) ==
    IF i > Len(t) THEN TRUE
    ELSE LET b == t[i]
             has(k) == i + k <= Len(t)
         IN CASE b <= 127 -> ValidUtf8From(t, i + 1)
              [] b >= 194 /\ b <= 223 ->
                    has(1) /\ Cont(t[i + 1]) /\ ValidUtf8From(t, i + 2)
              [] b >= 224 /\ b <= 239 ->
                    /\ has(2)
                    /\ Cont(t[i + 1]) /\ Cont(t[i + 2])
                    /\ (b = 224 => t[i + 1] >= 160)
                    /\ (b = 237 => t[i + 1] <= 159)
                    /\ ValidUtf8From(t, i + 3)
              [] b >= 240 /\ b <= 244 ->
                    /\ has(3)
                    /\ Cont(t[i + 1]) /\ Cont(t[i + 2]) /\ Cont(t[i + 3])
                    /\ (b = 240 => t[i + 1] >= 144)
                    /\ (b = 244 => t[i + 1] <= 143)
                    /\ ValidUtf8From(t, i + 4)
              [] OTHER -> FALSE
from_utf8_ok(t) == ValidUtf8From(t, 1)

\* str::chars: the code points of a UTF-8 text from byte i on.
RECURSIVE Chars(_, _)
Chars(t, i) ==
    IF i > Len(t) THEN <<>>
    ELSE LET b == t[i]
         IN CASE b <= 127 -> <<b>> \o Chars(t, i + 1)
              [] b >= 128 /\ b <= 223 ->
                    <<(b - 192) * 64 + (t[i + 1] - 128)>> \o Chars(t, i + 2)
              [] b >= 224 /\ b <= 239 ->
                    <<(b - 224) * 4096 + (t[i + 1] - 128) * 64 + (t[i + 2] - 128)>>
                       \o Chars(t, i + 3)
              [] OTHER ->
                    <<(b - 240) * 262144 + (t[i + 1] - 128) * 4096
                         + (t[i + 2] - 128) * 64 + (t[i + 3] - 128)>>
                       \o Chars(t, i + 4)

\* char::encode_utf8
encode_utf8(c) ==
    IF c < 128 THEN <<c>>
    ELSE IF c < 2048 THEN <<192 + (c \div 64), 128 + (c % 64)>>
    ELSE IF c < 65536
         THEN <<224 + (c \div 4096), 128 + ((c \div 64) % 64), 128 + (c % 64)>>
         ELSE <<240 + (c \div 262144), 128 + ((c \div 4096) % 64),
                128 + ((c \div 64) % 64), 128 + (c % 64)>>

\* char::to_lowercase, from the table of the Unicode character database.
\* U+0130 alone becomes two code points.
char_to_lowercase(c) ==
    CASE c < 128 -> <<LowerByte(c)>>
      [] c = 304 -> <<105, 775>>
      [] c >= 192 /\ c <= 214 -> <<c + 32>>
      [] c >= 216 /\ c <= 222 -> <<c + 32>>
      [] c >= 256 /\ c <= 302 /\ (c - 256) % 2 = 0 -> <<c + 1>>
      [] c >= 306 /\ c <= 310 /\ (c - 306) % 2 = 0 -> <<c + 1>>
      [] c >= 313 /\ c <= 327 /\ (c - 313) % 2 = 0 -> <<c + 1>>
      [] c >= 330 /\ c <= 374 /\ (c - 330) % 2 = 0 -> <<c + 1>>
      [] c = 376 -> <<c - 121>>
      [] c >= 377 /\ c <= 381 /\ (c - 377) % 2 = 0 -> <<c + 1>>
      [] c = 385 -> <<c + 210>>
      [] c >= 386 /\ c <= 388 /\ (c - 386) % 2 = 0 -> <<c + 1>>
      [] c = 390 -> <<c + 206>>
      [] c = 391 -> <<c + 1>>
      [] c >= 393 /\ c <= 394 -> <<c + 205>>
      [] c = 395 -> <<c + 1>>
      [] c = 398 -> <<c + 79>>
      [] c = 399 -> <<c + 202>>
      [] c = 400 -> <<c + 203>>
      [] c = 401 -> <<c + 1>>
      [] c = 403 -> <<c + 205>>
      [] c = 404 -> <<c + 207>>
      [] c = 406 -> <<c + 211>>
      [] c = 407 -> <<c + 209>>
      [] c = 408 -> <<c + 1>>
      [] c = 412 -> <<c + 211>>
      [] c = 413 -> <<c + 213>>
      [] c = 415 -> <<c + 214>>
      [] c >= 416 /\ c <= 420 /\ (c - 416) % 2 = 0 -> <<c + 1>>
      [] c = 422 -> <<c + 218>>
      [] c = 423 -> <<c + 1>>
      [] c = 425 -> <<c + 218>>
      [] c = 428 -> <<c + 1>>
      [] c = 430 -> <<c + 218>>
      [] c = 431 -> <<c + 1>>
      [] c >= 433 /\ c <= 434 -> <<c + 217>>
      [] c >= 435 /\ c <= 437 /\ (c - 435) % 2 = 0 -> <<c + 1>>
      [] c = 439 -> <<c + 219>>
      [] c = 440 -> <<c + 1>>
      [] c = 444 -> <<c + 1>>
      [] c = 452 -> <<c + 2>>
      [] c = 453 -> <<c + 1>>
      [] c = 455 -> <<c + 2>>
      [] c = 456 -> <<c + 1>>
      [] c = 458 -> <<c + 2>>
      [] c >= 459 /\ c <= 475 /\ (c - 459) % 2 = 0 -> <<c + 1>>
      [] c >= 478 /\ c <= 494 /\ (c - 478) % 2 = 0 -> <<c + 1>>
      [] c = 497 -> <<c + 2>>
      [] c >= 498 /\ c <= 500 /\ (c - 498) % 2 = 0 -> <<c + 1>>
      [] c = 502 -> <<c - 97>>
      [] c = 503 -> <<c - 56>>
      [] c >= 504 /\ c <= 542 /\ (c - 504) % 2 = 0 -> <<c + 1>>
      [] c = 544 -> <<c - 130>>
      [] c >= 546 /\ c <= 562 /\ (c - 546) % 2 = 0 -> <<c + 1>>
      [] c = 570 -> <<c + 10795>>
      [] c = 571 -> <<c + 1>>
      [] c = 573 -> <<c - 163>>
      [] c = 574 -> <<c + 10792>>
      [] c = 577 -> <<c + 1>>
      [] c = 579 -> <<c - 195>>
      [] c = 580 -> <<c + 69>>
      [] c = 581 -> <<c + 71>>
      [] c >= 582 /\ c <= 590 /\ (c - 582) % 2 = 0 -> <<c + 1>>
      [] c >= 880 /\ c <= 882 /\ (c - 880) % 2 = 0 -> <<c + 1>>
      [] c = 886 -> <<c + 1>>
      [] c = 895 -> <<c + 116>>
      [] c = 902 -> <<c + 38>>
      [] c >= 904 /\ c <= 906 -> <<c + 37>>
      [] c = 908 -> <<c + 64>>
      [] c >= 910 /\ c <= 911 -> <<c + 63>>
      [] c >= 913 /\ c <= 929 -> <<c + 32>>
      [] c >= 931 /\ c <= 939 -> <<c + 32>>
      [] c = 975 -> <<c + 8>>
      [] c >= 984 /\ c <= 1006 /\ (c - 984) % 2 = 0 -> <<c + 1>>
      [] c = 1012 -> <<c - 60>>
      [] c = 1015 -> <<c + 1>>
      [] c = 1017 -> <<c - 7>>
      [] c = 1018 -> <<c + 1>>
      [] c >= 1021 /\ c <= 1023 -> <<c - 130>>
      [] c >= 1024 /\ c <= 1039 -> <<c + 80>>
      [] c >= 1040 /\ c <= 1071 -> <<c + 32>>
      [] c >= 1120 /\ c <= 1152 /\ (c - 1120) % 2 = 0 -> <<c + 1>>
      [] c >= 1162 /\ c <= 1214 /\ (c - 1162) % 2 = 0 -> <<c + 1>>
      [] c = 1216 -> <<c + 15>>
      [] c >= 1217 /\ c <= 1229 /\ (c - 1217) % 2 = 0 -> <<c + 1>>
      [] c >= 1232 /\ c <= 1326 /\ (c - 1232) % 2 = 0 -> <<c + 1>>
      [] c >= 1329 /\ c <= 1366 -> <<c + 48>>
      [] c >= 4256 /\ c <= 4293 -> <<c + 7264>>
      [] c = 4295 -> <<c + 7264>>
      [] c = 4301 -> <<c + 7264>>
      [] c >= 5024 /\ c <= 5103 -> <<c + 38864>>
      [] c >= 5104 /\ c <= 5109 -> <<c + 8>>
      [] c = 7305 -> <<c + 1>>
      [] c >= 7312 /\ c <= 7354 -> <<c - 3008>>
      [] c >= 7357 /\ c <= 7359 -> <<c - 3008>>
      [] c >= 7680 /\ c <= 7828 /\ (c - 7680) % 2 = 0 -> <<c + 1>>
      [] c = 7838 -> <<c - 7615>>
      [] c >= 7840 /\ c <= 7934 /\ (c - 7840) % 2 = 0 -> <<c + 1>>
      [] c >= 7944 /\ c <= 7951 -> <<c - 8>>
      [] c >= 7960 /\ c <= 7965 -> <<c - 8>>
      [] c >= 7976 /\ c <= 7983 -> <<c - 8>>
      [] c >= 7992 /\ c <= 7999 -> <<c - 8>>
      [] c >= 8008 /\ c <= 8013 -> <<c - 8>>
      [] c >= 8025 /\ c <= 8031 /\ (c - 8025) % 2 = 0 -> <<c - 8>>
      [] c >= 8040 /\ c <= 8047 -> <<c - 8>>
      [] c >= 8072 /\ c <= 8079 -> <<c - 8>>
      [] c >= 8088 /\ c <= 8095 -> <<c - 8>>
      [] c >= 8104 /\ c <= 8111 -> <<c - 8>>
      [] c >= 8120 /\ c <= 8121 -> <<c - 8>>
      [] c >= 8122 /\ c <= 8123 -> <<c - 74>>
      [] c = 8124 -> <<c - 9>>
      [] c >= 8136 /\ c <= 8139 -> <<c - 86>>
      [] c = 8140 -> <<c - 9>>
      [] c >= 8152 /\ c <= 8153 -> <<c - 8>>
      [] c >= 8154 /\ c <= 8155 -> <<c - 100>>
      [] c >= 8168 /\ c <= 8169 -> <<c - 8>>
      [] c >= 8170 /\ c <= 8171 -> <<c - 112>>
      [] c = 8172 -> <<c - 7>>
      [] c >= 8184 /\ c <= 8185 -> <<c - 128>>
      [] c >= 8186 /\ c <= 8187 -> <<c - 126>>
      [] c = 8188 -> <<c - 9>>
      [] c = 8486 -> <<c - 7517>>
      [] c = 8490 -> <<c - 8383>>
      [] c = 8491 -> <<c - 8262>>
      [] c = 8498 -> <<c + 28>>
      [] c >= 8544 /\ c <= 8559 -> <<c + 16>>
      [] c = 8579 -> <<c + 1>>
      [] c >= 9398 /\ c <= 9423 -> <<c + 26>>
      [] c >= 11264 /\ c <= 11311 -> <<c + 48>>
      [] c = 11360 -> <<c + 1>>
      [] c = 11362 -> <<c - 10743>>
      [] c = 11363 -> <<c - 3814>>
      [] c = 11364 -> <<c - 10727>>
      [] c >= 11367 /\ c <= 11371 /\ (c - 11367) % 2 = 0 -> <<c + 1>>
      [] c = 11373 -> <<c - 10780>>
      [] c = 11374 -> <<c - 10749>>
      [] c = 11375 -> <<c - 10783>>
      [] c = 11376 -> <<c - 10782>>
      [] c = 11378 -> <<c + 1>>
      [] c = 11381 -> <<c + 1>>
      [] c >= 11390 /\ c <= 11391 -> <<c - 10815>>
      [] c >= 11392 /\ c <= 11490 /\ (c - 11392) % 2 = 0 -> <<c + 1>>
      [] c >= 11499 /\ c <= 11501 /\ (c - 11499) % 2 = 0 -> <<c + 1>>
      [] c = 11506 -> <<c + 1>>
      [] c >= 42560 /\ c <= 42604 /\ (c - 42560) % 2 = 0 -> <<c + 1>>
      [] c >= 42624 /\ c <= 42650 /\ (c - 42624) % 2 = 0 -> <<c + 1>>
      [] c >= 42786 /\ c <= 42798 /\ (c - 42786) % 2 = 0 -> <<c + 1>>
      [] c >= 42802 /\ c <= 42862 /\ (c - 42802) % 2 = 0 -> <<c + 1>>
      [] c >= 42873 /\ c <= 42875 /\ (c - 42873) % 2 = 0 -> <<c + 1>>
      [] c = 42877 -> <<c - 35332>>
      [] c >= 42878 /\ c <= 42886 /\ (c - 42878) % 2 = 0 -> <<c + 1>>
      [] c = 42891 -> <<c + 1>>
      [] c = 42893 -> <<c - 42280>>
      [] c >= 42896 /\ c <= 42898 /\ (c - 42896) % 2 = 0 -> <<c + 1>>
      [] c >= 42902 /\ c <= 42920 /\ (c - 42902) % 2 = 0 -> <<c + 1>>
      [] c = 42922 -> <<c - 42308>>
      [] c = 42923 -> <<c - 42319>>
      [] c = 42924 -> <<c - 42315>>
      [] c = 42925 -> <<c - 42305>>
      [] c = 42926 -> <<c - 42308>>
      [] c = 42928 -> <<c - 42258>>
      [] c = 42929 -> <<c - 42282>>
      [] c = 42930 -> <<c - 42261>>
      [] c = 42931 -> <<c + 928>>
      [] c >= 42932 /\ c <= 42946 /\ (c - 42932) % 2 = 0 -> <<c + 1>>
      [] c = 42948 -> <<c - 48>>
      [] c = 42949 -> <<c - 42307>>
      [] c = 42950 -> <<c - 35384>>
      [] c >= 42951 /\ c <= 42953 /\ (c - 42951) % 2 = 0 -> <<c + 1>>
      [] c = 42955 -> <<c - 42343>>
      [] c >= 42956 /\ c <= 42970 /\ (c - 42956) % 2 = 0 -> <<c + 1>>
      [] c = 42972 -> <<c - 42561>>
      [] c = 42997 -> <<c + 1>>
      [] c >= 65313 /\ c <= 65338 -> <<c + 32>>
      [] c >= 66560 /\ c <= 66599 -> <<c + 40>>
      [] c >= 66736 /\ c <= 66771 -> <<c + 40>>
      [] c >= 66928 /\ c <= 66938 -> <<c + 39>>
      [] c >= 66940 /\ c <= 66954 -> <<c + 39>>
      [] c >= 66956 /\ c <= 66962 -> <<c + 39>>
      [] c >= 66964 /\ c <= 66965 -> <<c + 39>>
      [] c >= 68736 /\ c <= 68786 -> <<c + 64>>
      [] c >= 68944 /\ c <= 68965 -> <<c + 32>>
      [] c >= 71840 /\ c <= 71871 -> <<c + 32>>
      [] c >= 93760 /\ c <= 93791 -> <<c + 32>>
      [] c >= 93856 /\ c <= 93880 -> <<c + 27>>
      [] c >= 125184 /\ c <= 125217 -> <<c + 34>>
      [] OTHER -> <<c>>

\* core::unicode::Cased and Case_Ignorable: the ranges of the derived
\* properties.
Cased(c) ==
    c \in UNION {65..90, 97..122, 170..170, 181..181, 186..186, 192..214,
                  216..246, 248..442, 444..447, 452..659, 662..696, 704..705,
                  736..740, 837..837, 880..883, 886..887, 890..893, 895..895,
                  902..902, 904..906, 908..908, 910..929, 931..1013,
                  1015..1153, 1162..1327, 1329..1366, 1376..1416, 4256..4293,
                  4295..4295, 4301..4301, 4304..4346, 4348..4351, 5024..5109,
                  5112..5117, 7296..7306, 7312..7354, 7357..7359, 7424..7615,
                  7680..7957, 7960..7965, 7968..8005, 8008..8013, 8016..8023,
                  8025..8025, 8027..8027, 8029..8029, 8031..8061, 8064..8116,
                  8118..8124, 8126..8126, 8130..8132, 8134..8140, 8144..8147,
                  8150..8155, 8160..8172, 8178..8180, 8182..8188, 8305..8305,
                  8319..8319, 8336..8348, 8450..8450, 8455..8455, 8458..8467,
                  8469..8469, 8473..8477, 8484..8484, 8486..8486, 8488..8488,
                  8490..8493, 8495..8500, 8505..8505, 8508..8511, 8517..8521,
                  8526..8526, 8544..8575, 8579..8580, 9398..9449,
                  11264..11492, 11499..11502, 11506..11507, 11520..11557,
                  11559..11559, 11565..11565, 42560..42605, 42624..42653,
                  42786..42887, 42891..42894, 42896..42972, 42993..42998,
                  43000..43002, 43824..43866, 43868..43881, 43888..43967,
                  64256..64262, 64275..64279, 65313..65338, 65345..65370,
                  66560..66639, 66736..66771, 66776..66811, 66928..66938,
                  66940..66954, 66956..66962, 66964..66965, 66967..66977,
                  66979..66993, 66995..67001, 67003..67004, 67456..67456,
                  67459..67461, 67463..67504, 67506..67514, 68736..68786,
                  68800..68850, 68944..68965, 68976..68997, 71840..71903,
                  93760..93823, 93856..93880, 93883..93907, 119808..119892,
                  119894..119964, 119966..119967, 119970..119970,
                  119973..119974, 119977..119980, 119982..119993,
                  119995..119995, 119997..120003, 120005..120069,
                  120071..120074, 120077..120084, 120086..120092,
                  120094..120121, 120123..120126, 120128..120132,
                  120134..120134, 120138..120144, 120146..120485,
                  120488..120512, 120514..120538, 120540..120570,
                  120572..120596, 120598..120628, 120630..120654,
                  120656..120686, 120688..120712, 120714..120744,
                  120746..120770, 120772..120779, 122624..122633,
                  122635..122654, 122661..122666, 122928..122989,
                  125184..125251, 127280..127305, 127312..127337,
                  127344..127369}
Case_Ignorable(c) ==
    c \in UNION {39..39, 46..46, 58..58, 94..94, 96..96, 168..168, 173..173,
                  175..175, 180..180, 183..184, 688..879, 884..885, 890..890,
                  900..901, 903..903, 1155..1161, 1369..1369, 1375..1375,
                  1425..1469, 1471..1471, 1473..1474, 1476..1477, 1479..1479,
                  1524..1524, 1536..1541, 1552..1562, 1564..1564, 1600..1600,
                  1611..1631, 1648..1648, 1750..1757, 1759..1768, 1770..1773,
                  1807..1807, 1809..1809, 1840..1866, 1958..1968, 2027..2037,
                  2042..2042, 2045..2045, 2070..2093, 2137..2139, 2184..2184,
                  2192..2193, 2199..2207, 2249..2306, 2362..2362, 2364..2364,
                  2369..2376, 2381..2381, 2385..2391, 2402..2403, 2417..2417,
                  2433..2433, 2492..2492, 2497..2500, 2509..2509, 2530..2531,
                  2558..2558, 2561..2562, 2620..2620, 2625..2626, 2631..2632,
                  2635..2637, 2641..2641, 2672..2673, 2677..2677, 2689..2690,
                  2748..2748, 2753..2757, 2759..2760, 2765..2765, 2786..2787,
                  2810..2815, 2817..2817, 2876..2876, 2879..2879, 2881..2884,
                  2893..2893, 2901..2902, 2914..2915, 2946..2946, 3008..3008,
                  3021..3021, 3072..3072, 3076..3076, 3132..3132, 3134..3136,
                  3142..3144, 3146..3149, 3157..3158, 3170..3171, 3201..3201,
                  3260..3260, 3263..3263, 3270..3270, 3276..3277, 3298..3299,
                  3328..3329, 3387..3388, 3393..3396, 3405..3405, 3426..3427,
                  3457..3457, 3530..3530, 3538..3540, 3542..3542, 3633..3633,
                  3636..3642, 3654..3662, 3761..3761, 3764..3772, 3782..3782,
                  3784..3790, 3864..3865, 3893..3893, 3895..3895, 3897..3897,
                  3953..3966, 3968..3972, 3974..3975, 3981..3991, 3993..4028,
                  4038..4038, 4141..4144, 4146..4151, 4153..4154, 4157..4158,
                  4184..4185, 4190..4192, 4209..4212, 4226..4226, 4229..4230,
                  4237..4237, 4253..4253, 4348..4348, 4957..4959, 5906..5908,
                  5938..5939, 5970..5971, 6002..6003, 6068..6069, 6071..6077,
                  6086..6086, 6089..6099, 6103..6103, 6109..6109, 6155..6159,
                  6211..6211, 6277..6278, 6313..6313, 6432..6434, 6439..6440,
                  6450..6450, 6457..6459, 6679..6680, 6683..6683, 6742..6742,
                  6744..6750, 6752..6752, 6754..6754, 6757..6764, 6771..6780,
                  6783..6783, 6823..6823, 6832..6877, 6880..6891, 6912..6915,
                  6964..6964, 6966..6970, 6972..6972, 6978..6978, 7019..7027,
                  7040..7041, 7074..7077, 7080..7081, 7083..7085, 7142..7142,
                  7144..7145, 7149..7149, 7151..7153, 7212..7219, 7222..7223,
                  7288..7293, 7376..7378, 7380..7392, 7394..7400, 7405..7405,
                  7412..7412, 7416..7417, 7468..7530, 7544..7544, 7579..7679,
                  8125..8125, 8127..8129, 8141..8143, 8157..8159, 8173..8175,
                  8189..8190, 8203..8207, 8216..8217, 8228..8228, 8231..8231,
                  8234..8238, 8288..8292, 8294..8303, 8305..8305, 8319..8319,
                  8336..8348, 8400..8432, 11388..11389, 11503..11505,
                  11631..11631, 11647..11647, 11744..11775, 11823..11823,
                  12293..12293, 12330..12333, 12337..12341, 12347..12347,
                  12441..12446, 12540..12542, 40981..40981, 42232..42237,
                  42508..42508, 42607..42610, 42612..42621, 42623..42623,
                  42652..42655, 42736..42737, 42752..42785, 42864..42864,
                  42888..42890, 42993..42996, 43000..43001, 43010..43010,
                  43014..43014, 43019..43019, 43045..43046, 43052..43052,
                  43204..43205, 43232..43249, 43263..43263, 43302..43309,
                  43335..43345, 43392..43394, 43443..43443, 43446..43449,
                  43452..43453, 43471..43471, 43493..43494, 43561..43566,
                  43569..43570, 43573..43574, 43587..43587, 43596..43596,
                  43632..43632, 43644..43644, 43696..43696, 43698..43700,
                  43703..43704, 43710..43711, 43713..43713, 43741..43741,
                  43756..43757, 43763..43764, 43766..43766, 43867..43871,
                  43881..43883, 44005..44005, 44008..44008, 44013..44013,
                  64286..64286, 64434..64450, 65024..65039, 65043..65043,
                  65056..65071, 65106..65106, 65109..65109, 65279..65279,
                  65287..65287, 65294..65294, 65306..65306, 65342..65342,
                  65344..65344, 65392..65392, 65438..65439, 65507..65507,
                  65529..65531, 66045..66045, 66272..66272, 66422..66426,
                  67456..67461, 67463..67504, 67506..67514, 68097..68099,
                  68101..68102, 68108..68111, 68152..68154, 68159..68159,
                  68325..68326, 68900..68903, 68942..68942, 68969..68973,
                  68975..68975, 69291..69292, 69317..69317, 69370..69375,
                  69446..69456, 69506..69509, 69633..69633, 69688..69702,
                  69744..69744, 69747..69748, 69759..69761, 69811..69814,
                  69817..69818, 69821..69821, 69826..69826, 69837..69837,
                  69888..69890, 69927..69931, 69933..69940, 70003..70003,
                  70016..70017, 70070..70078, 70089..70092, 70095..70095,
                  70191..70193, 70196..70196, 70198..70199, 70206..70206,
                  70209..70209, 70367..70367, 70371..70378, 70400..70401,
                  70459..70460, 70464..70464, 70502..70508, 70512..70516,
                  70587..70592, 70606..70606, 70608..70608, 70610..70610,
                  70625..70626, 70712..70719, 70722..70724, 70726..70726,
                  70750..70750, 70835..70840, 70842..70842, 70847..70848,
                  70850..70851, 71090..71093, 71100..71101, 71103..71104,
                  71132..71133, 71219..71226, 71229..71229, 71231..71232,
                  71339..71339, 71341..71341, 71344..71349, 71351..71351,
                  71453..71453, 71455..71455, 71458..71461, 71463..71467,
                  71727..71735, 71737..71738, 71995..71996, 71998..71998,
                  72003..72003, 72148..72151, 72154..72155, 72160..72160,
                  72193..72202, 72243..72248, 72251..72254, 72263..72263,
                  72273..72278, 72281..72283, 72330..72342, 72344..72345,
                  72544..72544, 72546..72548, 72550..72550, 72752..72758,
                  72760..72765, 72767..72767, 72850..72871, 72874..72880,
                  72882..72883, 72885..72886, 73009..73014, 73018..73018,
                  73020..73021, 73023..73029, 73031..73031, 73104..73105,
                  73109..73109, 73111..73111, 73177..73177, 73459..73460,
                  73472..73473, 73526..73530, 73536..73536, 73538..73538,
                  73562..73562, 78896..78912, 78919..78933, 90398..90409,
                  90413..90415, 92912..92916, 92976..92982, 92992..92995,
                  93504..93506, 93547..93548, 94031..94031, 94095..94111,
                  94176..94177, 94179..94180, 94194..94195, 110576..110579,
                  110581..110587, 110589..110590, 113821..113822,
                  113824..113827, 118528..118573, 118576..118598,
                  119143..119145, 119155..119170, 119173..119179,
                  119210..119213, 119362..119364, 121344..121398,
                  121403..121452, 121461..121461, 121476..121476,
                  121499..121503, 121505..121519, 122880..122886,
                  122888..122904, 122907..122913, 122915..122916,
                  122918..122922, 122928..122989, 123023..123023,
                  123184..123197, 123566..123566, 123628..123631,
                  124139..124143, 124398..124399, 124643..124643,
                  124646..124646, 124654..124655, 124661..124661,
                  124671..124671, 125136..125142, 125252..125259,
                  127995..127999, 917505..917505, 917536..917631,
                  917760..917999}

\* case_ignorable_then_cased over the code points from i on in steps of
\* step: backwards (the reversed iterator) for -1, forwards for 1.
RECURSIVE case_ignorable_then_cased(_, _, _)
case_ignorable_then_cased(cs, i, step) ==
    IF i < 1 \/ i > Len(cs) THEN FALSE
    ELSE IF Case_Ignorable(cs[i]) THEN case_ignorable_then_cased(cs, i + step, step)
    ELSE Cased(cs[i])

\* map_uppercase_sigma: the final form U+03C2 when a cased letter stands
\* before the sigma and none after it, U+03C3 otherwise.
is_word_final(cased) == cased[-1] /\ ~cased[1]
map_uppercase_sigma(cs, i) ==
    IF is_word_final([step \in {-1, 1} |->
                         case_ignorable_then_cased(cs, i + step, step)])
    THEN <<962>>
    ELSE <<963>>

\* String::push of the one or two code points a letter is lowered to.
push_all(lower) ==
    IF Len(lower) = 1 THEN encode_utf8(lower[1])
    ELSE encode_utf8(lower[1]) \o encode_utf8(lower[2])

\* The loop of str::to_lowercase from code point i on, as UTF-8.
RECURSIVE LowerFrom(_, _)
LowerFrom(cs, i) ==
    IF i > Len(cs) THEN <<>>
    ELSE push_all(IF cs[i] = 931 THEN map_uppercase_sigma(cs, i)
                  ELSE char_to_lowercase(cs[i]))
            \o LowerFrom(cs, i + 1)

\* str::to_lowercase. A str is UTF-8; bytes that are not a str have their
\* ASCII letters lowered.
to_lowercase(t) ==
    IF from_utf8_ok(t) THEN LowerFrom(Chars(t, 1), 1) ELSE to_ascii_lowercase(t)

\* "invalid utf-8"
InvalidUtf8Text == <<105, 110, 118, 97, 108, 105, 100, 32, 117, 116, 102, 45, 56>>

\* String::from_utf8(body).unwrap_or_else(|_| String::from("invalid utf-8"))
DecodeBody(bytes) == IF from_utf8_ok(bytes) THEN bytes ELSE InvalidUtf8Text

\* "request to Spin failed\nbody:\n"
StatusMessagePrefix ==
    <<114, 101, 113, 117, 101, 115, 116, 32, 116, 111, 32, 83, 112, 105, 110, 32,
      102, 97, 105, 108, 101, 100, 10, 98, 111, 100, 121, 58, 10>>

(***************************************************************************)
(* Conformance runner: assertions on a delivered response                  *)
(***************************************************************************)
\* config::ResponseHeader and the expected response of an invocation
ExpectedHeader(name, value, optional) ==
    [name |-> name, value |-> value, optional |-> optional]
Expected(status, headers, expectedBody) ==
    [status |-> status, headers |-> headers, body |-> expectedBody]

\* config::Invocation::Http: the declared request and expected response.
Request(method, path, headers) == [method |-> method, path |-> path, headers |-> headers]
Invocation(req, expected) == [request |-> req, response |-> expected]
NoInvocation == Invocation(Request(None, <<>>, <<>>), Expected(0, <<>>, None))

NoOutcome == [result |-> "running", failure |-> "", message |-> <<>>]
Pass == [result |-> "pass", failure |-> "", message |-> <<>>]
Fail(failure, message) == [result |-> "fail", failure |-> failure, message |-> message]

\* A call into the guest returns, or fails (wasmtime::Result's Err, which
\* `?` returns from main); consume and stream can also return Err(()).
\* Fault(site, n, how): the n-th call of site answers how instead of Ok.
NoFault == [site |-> "none", n |-> 0, how |-> "none"]
Fault(site, n, how) == [site |-> site, n |-> n, how |-> how]
Answer(fault, site, n) ==
    IF fault.site = site /\ fault.n = n THEN fault.how ELSE "Ok"

\* IncomingResponse::consume: the call's failure (line 245), Ok(Ok(body))
\* or Ok(Err(())).
IncomingResponse_consume(fault) ==
    CASE Answer(fault, "IncomingResponse::consume", 1) = "Failed" -> "Failed"
      [] Answer(fault, "IncomingResponse::consume", 1) = "Err" -> "Err"
      [] OTHER -> "Ok"

\* IncomingBody::stream: the call's failure (line 268), Ok(Ok(stream)) or
\* Ok(Err(())).
IncomingBody_stream(fault) ==
    CASE Answer(fault, "IncomingBody::stream", 1) = "Failed" -> "Failed"
      [] Answer(fault, "IncomingBody::stream", 1) = "Err" -> "Err"
      [] OTHER -> "Ok"

\* InputStream::blocking_read: the call's failure, Ok(Err(StreamError)) or
\* Ok(Ok(bytes)) with the bytes of the body.
blocking_read(resp, fault) ==
    IF Answer(fault, "InputStream::blocking_read", 1) = "Failed"
    THEN [res |-> "Failed", bytes |-> <<>>]
    ELSE IF resp.stream # "ok" THEN [res |-> "Err", bytes |-> <<>>]
    ELSE [res |-> "Ok", bytes |-> resp.body]

ReadFailed(failure) == [ok |-> FALSE, bytes |-> <<>>, failure |-> failure]

\* Lines 49-55: response.status()?, then
\* response.consume()?.map_err()?.stream()?.map_err()?.blocking_read(u64::MAX)??
ReadBody(resp, fault) ==
    IF Answer(fault, "IncomingResponse::status", 1) = "Failed"
    THEN ReadFailed("IncomingResponse::status")
    ELSE IF IncomingResponse_consume(fault) = "Failed"
    THEN ReadFailed("IncomingResponse::consume")
    ELSE IF IncomingResponse_consume(fault) = "Err"
    THEN ReadFailed("response body already consumed")
    ELSE IF IncomingBody_stream(fault) = "Failed"
    THEN ReadFailed("IncomingBody::stream")
    ELSE IF IncomingBody_stream(fault) = "Err"
    THEN ReadFailed("response body stream already consumed")
    ELSE IF blocking_read(resp, fault).res = "Failed"
    THEN ReadFailed("InputStream::blocking_read")
    ELSE IF blocking_read(resp, fault).res = "Err"
    THEN ReadFailed("stream error")
    ELSE [ok |-> TRUE, bytes |-> blocking_read(resp, fault).bytes, failure |-> ""]

\* The answers the guest can give while main reads a response.
ReadFaults ==
    {NoFault}
        \cup {Fault(site, 1, "Failed") :
                 site \in {"IncomingResponse::status", "IncomingResponse::consume",
                           "IncomingBody::stream", "InputStream::blocking_read"}}
        \cup {Fault(site, 1, "Err") :
                 site \in {"IncomingResponse::consume", "IncomingBody::stream"}}
\* The answers the guest can give while main collects the headers.
HeaderFaults ==
    {NoFault}
        \cup {Fault(site, 1, "Failed") :
                 site \in {"IncomingResponse::headers", "Fields::entries"}}

\* assert_eq!(status, invocation.response.status, "request to Spin failed\nbody:\n{body}")
AssertStatusNoBody(status, expectedStatus, decoded) ==
    IF status = expectedStatus THEN Pass
    ELSE Fail("status mismatch", StatusMessagePrefix)

AssertStatus(status, expectedStatus, decoded) ==
    IF status = expectedStatus THEN Pass
    ELSE Fail("status mismatch", StatusMessagePrefix \o decoded)

\* The entries collected into a HashMap keyed by lower-cased name: of the
\* entries under one name the last one stays.
ActualHeaders(entries) ==
    LET names == {to_lowercase(entries[i][1]) : i \in DOMAIN entries}
        last(n) == CHOOSE i \in DOMAIN entries :
                      /\ to_lowercase(entries[i][1]) = n
                      /\ \A j \in DOMAIN entries :
                            to_lowercase(entries[j][1]) = n => j <= i
    IN [n \in names |-> to_lowercase(entries[last(n)][2])]

\* HashMap::remove
Remove(map, n) == [k \in (DOMAIN map) \ {n} |-> map[k]]

\* What an expected header that is absent from the map does to the check.
AbsentAlwaysFails(h) == Fail("expected header not found", h.name)
Absent(h) == IF h.optional THEN Pass ELSE Fail("expected header not found", h.name)

\* The loop over invocation.response.headers from header i on.
RECURSIVE HeaderLoop(_, _, _)
HeaderLoop(expected, i, map) ==
    IF i > Len(expected)
    THEN [outcome |-> Pass, map |-> map]
    ELSE LET h == expected[i]
             expected_name == to_lowercase(h.name)
             expected_value == IF h.value.some THEN Some(to_lowercase(h.value.v)) ELSE None
         IN IF expected_name \notin DOMAIN map
            THEN IF Absent(h).result = "pass"
                 THEN HeaderLoop(expected, i + 1, map)
                 ELSE [outcome |-> Absent(h), map |-> map]
            ELSE LET actual_value == map[expected_name]
                     rest == Remove(map, expected_name)
                 IN IF expected_value.some /\ actual_value # expected_value.v
                    THEN [outcome |-> Fail("header value mismatch", actual_value),
                          map |-> rest]
                    ELSE HeaderLoop(expected, i + 1, rest)

\* Lines 62-93: build the map, run the loop, reject what is left.
AssertHeaders(entries, expected) ==
    IF \E i \in DOMAIN entries : ~from_utf8_ok(entries[i][2])
    THEN Fail("header value is not utf-8", <<>>)
    ELSE LET loop == HeaderLoop(expected, 1, ActualHeaders(entries))
         IN IF loop.outcome.result = "fail" THEN loop.outcome
            ELSE IF DOMAIN loop.map # {}
                 THEN Fail("unexpected headers", <<>>)
                 ELSE Pass

\* The body assertion refusing an undecodable body when no body is declared.
AssertBodyNeedsUtf8(decoded, expectedBody) ==
    IF expectedBody.some
    THEN IF decoded # expectedBody.v THEN Fail("body mismatch", decoded) ELSE Pass
    ELSE IF decoded = InvalidUtf8Text THEN Fail("body mismatch", decoded) ELSE Pass

\* Lines 95-97
AssertBody(decoded, expectedBody) ==
    IF expectedBody.some /\ decoded # expectedBody.v
    THEN Fail("body mismatch", decoded)
    ELSE Pass

\* Lines 62-93 with the calls of lines 63 and 64.
ResponseHeaders(entries, expected, fault) ==
    IF Answer(fault, "IncomingResponse::headers", 1) = "Failed"
    THEN Fail("IncomingResponse::headers", <<>>)
    ELSE IF Answer(fault, "Fields::entries", 1) = "Failed"
    THEN Fail("Fields::entries", <<>>)
    ELSE AssertHeaders(entries, expected)

\* ---- the assertion steps of main ----
\* Lines 49-56: status, body read and decoded.
ReadResponse ==
    /\ rpc = "read"
    /\ \E fault \in ReadFaults :
          LET read == ReadBody(response, fault)
          IN IF read.ok
             THEN /\ body' = DecodeBody(read.bytes)
                  /\ rpc' = "status"
                  /\ UNCHANGED outcome
             ELSE /\ outcome' = Fail(read.failure, <<>>)
                  /\ rpc' = "failed"
                  /\ UNCHANGED body
    /\ UNCHANGED <<invocation, response>>
    /\ UNCHANGED <<bridgeVars, chanVars, compVars, flowVars>>

\* Lines 57-60
CheckStatus ==
    /\ rpc = "status"
    /\ LET o == AssertStatus(response.status, invocation.response.status, body)
       IN IF o.result = "pass"
          THEN rpc' = "headers" /\ UNCHANGED outcome
          ELSE rpc' = "failed" /\ outcome' = o
    /\ UNCHANGED <<invocation, response, body>>
    /\ UNCHANGED <<bridgeVars, chanVars, compVars, flowVars>>

\* Lines 62-93
CheckHeaders ==
    /\ rpc = "headers"
    /\ \E fault \in HeaderFaults :
          LET o == ResponseHeaders(response.headers, invocation.response.headers, fault)
          IN IF o.result = "pass"
             THEN rpc' = "body" /\ UNCHANGED outcome
             ELSE rpc' = "failed" /\ outcome' = o
    /\ UNCHANGED <<invocation, response, body>>
    /\ UNCHANGED <<bridgeVars, chanVars, compVars, flowVars>>

\* Lines 95-97
CheckBody ==
    /\ rpc = "body"
    /\ LET o == AssertBody(body, invocation.response.body)
       IN IF o.result = "pass"
          THEN rpc' = "passed" /\ outcome' = Pass
          ELSE rpc' = "failed" /\ outcome' = o
    /\ UNCHANGED <<invocation, response, body>>
    /\ UNCHANGED <<bridgeVars, chanVars, compVars, flowVars>>

\* Header names and values the assertions are tried on: n, N, m and the
\* values e-acute (U+00E9), E-acute (U+00C9), w, and a value that is not
\* UTF-8.
Name_n == <<110>>
Name_N == <<78>>
Name_m == <<109>>
Value_e == <<195, 169>>
Value_E == <<195, 137>>
Value_w == <<119>>
Value_bad == <<255>>
Body_ok == <<111, 107>>
Path_root == <<47>>
Body_bad == <<111, 255>>

ActualEntries ==
    {<<Name_n, Value_e>>, <<Name_N, Value_E>>, <<Name_n, Value_w>>,
     <<Name_m, Value_e>>, <<Name_m, Value_bad>>}
ExpectedEntries ==
    {ExpectedHeader(Name_n, Some(Value_e), FALSE),
     ExpectedHeader(Name_N, Some(Value_E), FALSE),
     ExpectedHeader(Name_n, Some(Value_w), FALSE),
     ExpectedHeader(Name_m, Some(Value_e), FALSE),
     ExpectedHeader(Name_N, None, FALSE),
     ExpectedHeader(Name_m, None, TRUE),
     ExpectedHeader(Name_m, Some(Value_w), TRUE)}
AssertStatuses == {200, 500}
AssertExpected ==
    {Expected(200, h, b) : h \in SeqsUpTo(ExpectedEntries, MaxExpected),
                           b \in {None, Some(Body_ok)}}
\* A body stream that fails hands out no bytes.
AssertResponses ==
    {Response(s, h, b, "ok") : s \in AssertStatuses,
                               h \in SeqsUpTo(ActualEntries, MaxActual),
                               b \in {Body_ok, Body_bad}}
        \cup {Response(s, h, <<>>, "error") : s \in AssertStatuses,
                                             h \in SeqsUpTo(ActualEntries, MaxActual)}

InitAssert ==
    /\ rpc = "read"
    /\ invocation \in {Invocation(Request(None, Path_root, <<>>), e) : e \in AssertExpected}
    /\ response \in AssertResponses
    /\ body = <<>>
    /\ outcome = NoOutcome

NextAssert ==
    \/ ReadResponse
    \/ CheckStatus
    \/ CheckHeaders
    \/ CheckBody

(***************************************************************************)
(* Conformance runner: the loops of main                                   *)
(***************************************************************************)
Method_GET == <<71, 69, 84>>
Method_POST == <<80, 79, 83, 84>>
Name_bad == <<110, 32, 110>>
Path_bad == <<47, 32>>

\* The outgoing request as the guest holds it.
OutgoingRequest(method, path, headers) ==
    [method |-> method, path |-> path, headers |-> headers]
NoRequest == OutgoingRequest(<<>>, None, <<>>)

\* fields.append: a header name is a token of visible ASCII characters
\* without separators; anything else is a HeaderError.
Separators == {34, 40, 41, 44, 47, 58, 59, 60, 61, 62, 63, 64, 91, 92, 93, 123, 125}
HeaderNameOk(name) ==
    /\ Len(name) > 0
    /\ \A i \in DOMAIN name :
          name[i] >= 33 /\ name[i] <= 126 /\ name[i] \notin Separators

\* The loop over invocation.request.headers passing over a header whose
\* append failed.
RECURSIVE AppendAllSkipping(_, _, _, _)
AppendAllSkipping(headers, i, fields, fault) ==
    IF i > Len(headers) THEN [res |-> "Ok", fields |-> fields]
    ELSE IF Answer(fault, "Fields::append", i) = "Ok" /\ HeaderNameOk(headers[i][1])
         THEN AppendAllSkipping(headers, i + 1, Append(fields, headers[i]), fault)
         ELSE AppendAllSkipping(headers, i + 1, fields, fault)

\* The loop over invocation.request.headers (lines 35-37): the fields after
\* appending headers i.., or the first append that failed: the call itself
\* (first `?` of line 36) or the HeaderError it returned (second `?`).
RECURSIVE AppendAll(_, _, _, _)
AppendAll(headers, i, fields, fault) ==
    IF i > Len(headers) THEN [res |-> "Ok", fields |-> fields]
    ELSE IF Answer(fault, "Fields::append", i) = "Failed"
         THEN [res |-> "Failed", fields |-> fields]
         ELSE IF ~HeaderNameOk(headers[i][1])
              THEN [res |-> "HeaderError", fields |-> fields]
              ELSE AppendAll(headers, i + 1, Append(fields, headers[i]), fault)

\* outgoing_request.set_path_with_query: a path of visible ASCII characters.
PathOk(path) == \A i \in DOMAIN path : path[i] >= 33 /\ path[i] <= 126

\* The channel behind a pair the guest made, and the invocation whose
\* call_handle was given its outparam (0: none so far).
PairChannel == [tx |-> "live", value |-> NoValue, rxInner |-> TRUE, inv |-> 0]
NoPair == [out |-> 0, rx |-> 0]

\* http-helper new-response in the guest: a new channel in the store, and
\* the handles of its outparam and its receiver.
Guest_new_response(table) ==
    [table |-> Append(table, PairChannel), out |-> Len(table) + 1, rx |-> Len(table) + 1]

\* new_response (lines 180-198): the call's failure, or the pair the guest
\* returned with the receiver wrapped.
new_response(table, fault) ==
    IF Answer(fault, "new_response", 1) = "Failed"
    THEN [res |-> "Failed", table |-> table, pair |-> NoPair]
    ELSE [res |-> "Ok", table |-> Guest_new_response(table).table,
          pair |-> [out |-> Guest_new_response(table).out,
                    rx |-> Guest_new_response(table).rx]]

\* The answers the guest can give while main builds an invocation's request.
BuildFaults(inv) ==
    {NoFault}
        \cup {Fault(site, 1, "Failed") :
                 site \in {"Fields::new", "OutgoingRequest::new",
                           "OutgoingRequest::set_path_with_query",
                           "IncomingRequest::new", "new_response"}}
        \cup {Fault("Fields::append", i, "Failed") : i \in DOMAIN inv.request.headers}

\* Invocations and handler responses the loops are tried on.
EchoHeader == <<Name_n, Value_e>>
RunInvocations ==
    {Invocation(Request(None, Path_root, <<EchoHeader>>),
                Expected(200, <<ExpectedHeader(Name_n, Some(Value_e), FALSE)>>,
                         Some(Body_ok))),
     Invocation(Request(Some(Method_POST), Path_root, <<>>),
                Expected(200, <<>>, None)),
     Invocation(Request(None, Path_root, <<EchoHeader, <<Name_bad, Value_e>>>>),
                Expected(200, <<>>, None)),
     Invocation(Request(None, Path_root, <<EchoHeader, <<Name_m, Value_w>>>>),
                Expected(200, <<>>, None)),
     Invocation(Request(None, Path_bad, <<>>), Expected(200, <<>>, None))}
RunResponses ==
    {Response(200, <<EchoHeader>>, Body_ok, "ok"),
     Response(200, <<>>, Body_bad, "ok"),
     Response(500, <<>>, Body_ok, "ok"),
     Response(200, <<>>, <<>>, "error")}
Scenarios == SeqsUpTo(RunInvocations, MaxInvocations)

\* Lines 16-19: main has listed the test artifacts, or has returned the
\* error of download_tests()? (line 17) or of tests()? (line 19) with no
\* test run.
InitRun ==
    /\ tests \in 0..MaxTests
    /\ \E start \in {"ok", "download_tests", "tests"} :
          IF start = "ok"
          THEN rpc = "tests" /\ outcome = NoOutcome
          ELSE rpc = "failed" /\ outcome = Fail(start, <<>>)
    /\ invocation = NoInvocation
    /\ response = NoResponse
    /\ body = <<>>
    /\ testNo = 0
    /\ scenario = <<>>
    /\ invNo = 0
    /\ request = NoRequest
    /\ rchan = <<>>
    /\ pair = NoPair

\* Lines 19-31: the next test is set up: a new store, its component
\* virtualized and instantiated. Each `?` there returns its error from
\* main (lines 21, 24, 27, 28, 29, 31); only the error of virtualize_app
\* carries the context "failed to virtualize app" (line 25).
StartTest ==
    /\ rpc = "tests"
    /\ testNo < tests
    /\ testNo' = testNo + 1
    /\ invNo' = 0
    /\ rchan' = <<>>
    /\ pair' = NoPair
    /\ \E setup \in {"ok", "std::fs::read", "String::from_utf8",
                      "Component::from_file", "failed to virtualize app",
                      "Component::new", "add_to_linker_sync",
                      "VirtualizedApp::add_to_linker",
                      "VirtualizedApp::instantiate"} :
          IF setup = "ok"
          THEN /\ scenario' \in Scenarios
               /\ rpc' = "invocations"
               /\ outcome' = NoOutcome
          ELSE /\ scenario' = <<>>
               /\ rpc' = "failed"
               /\ outcome' = Fail(setup, <<>>)
    /\ UNCHANGED <<invocation, response, body, request, tests>>
    /\ UNCHANGED <<bridgeVars, chanVars, compVars>>

\* Line 100: no test is left.
Finish ==
    /\ rpc = "tests"
    /\ testNo = tests
    /\ rpc' = "done"
    /\ UNCHANGED <<invocation, response, body, outcome, flowVars>>
    /\ UNCHANGED <<bridgeVars, chanVars, compVars>>

\* Line 32: no invocation of the scenario is left.
EndTest ==
    /\ rpc = "invocations"
    /\ invNo = Len(scenario)
    /\ rpc' = "tests"
    /\ UNCHANGED <<invocation, response, body, outcome, flowVars>>
    /\ UNCHANGED <<bridgeVars, chanVars, compVars>>

\* main returns the error of a `?`.
Abort(failure) == rpc' = "failed" /\ outcome' = Fail(failure, <<>>)

\* Lines 32-43: the next invocation's fields, outgoing request, incoming
\* request and (outparam, receiver) pair; each `?` on the way leaves main.
BuildRequest ==
    /\ rpc = "invocations"
    /\ invNo < Len(scenario)
    /\ invNo' = invNo + 1
    /\ invocation' = scenario[invNo + 1]
    /\ response' = NoResponse
    /\ body' = <<>>
    /\ \E fault \in BuildFaults(scenario[invNo + 1]) :
          LET inv == scenario[invNo + 1]
              fields == AppendAll(inv.request.headers, 1, <<>>, fault)
              made == new_response(rchan, fault)
          IN IF Answer(fault, "Fields::new", 1) = "Failed"
             THEN Abort("Fields::new") /\ UNCHANGED <<request, rchan, pair>>
             ELSE IF fields.res = "Failed"
             THEN Abort("Fields::append") /\ UNCHANGED <<request, rchan, pair>>
             ELSE IF fields.res = "HeaderError"
             THEN Abort("header error") /\ UNCHANGED <<request, rchan, pair>>
             ELSE IF Answer(fault, "OutgoingRequest::new", 1) = "Failed"
             THEN Abort("OutgoingRequest::new") /\ UNCHANGED <<request, rchan, pair>>
             ELSE IF Answer(fault, "OutgoingRequest::set_path_with_query", 1) = "Failed"
             THEN /\ Abort("OutgoingRequest::set_path_with_query")
                  /\ request' = OutgoingRequest(Method_GET, None, fields.fields)
                  /\ UNCHANGED <<rchan, pair>>
             ELSE IF ~PathOk(inv.request.path)
             THEN /\ Abort("invalid request path")
                  /\ request' = OutgoingRequest(Method_GET, None, fields.fields)
                  /\ UNCHANGED <<rchan, pair>>
             ELSE IF Answer(fault, "IncomingRequest::new", 1) = "Failed"
             THEN /\ Abort("IncomingRequest::new")
                  /\ request' = OutgoingRequest(Method_GET, Some(inv.request.path),
                                                fields.fields)
                  /\ UNCHANGED <<rchan, pair>>
             ELSE IF made.res = "Failed"
             THEN /\ Abort("new_response")
                  /\ request' = OutgoingRequest(Method_GET, Some(inv.request.path),
                                                fields.fields)
                  /\ UNCHANGED <<rchan, pair>>
             ELSE /\ rpc' = "handle"
                  /\ outcome' = NoOutcome
                  /\ request' = OutgoingRequest(Method_GET, Some(inv.request.path),
                                                fields.fields)
                  /\ rchan' = made.table
                  /\ pair' = made.pair
    /\ UNCHANGED <<tests, testNo, scenario>>
    /\ UNCHANGED <<bridgeVars, chanVars, compVars>>

\* The handler of invocation n, given outparam h, leaves its channel with
\* sender state tx and value v.
Handled(table, h, n, tx, v) ==
    [table EXCEPT ![h] = [@ EXCEPT !.inv = n, !.tx = tx, !.value = v]]

\* Lines 44-46: the entry point is given the request and the outparam of
\* the pair; the handler by the time it returns has set the outparam,
\* dropped it, or still holds it.
CallHandle ==
    /\ rpc = "handle"
    /\ \E did \in {"set", "error", "drop", "hold", "trap"} :
          CASE did = "set" ->
                 /\ \E r \in RunResponses :
                       rchan' = Handled(rchan, pair.out, invNo, "sent", OkValue(r))
                 /\ rpc' = "poll"
                 /\ UNCHANGED outcome
            [] did = "error" ->
                 /\ rchan' = Handled(rchan, pair.out, invNo, "sent",
                                     ErrValue("internal-error"))
                 /\ rpc' = "poll"
                 /\ UNCHANGED outcome
            [] did = "drop" ->
                 /\ rchan' = Handled(rchan, pair.out, invNo, "dropped", NoValue)
                 /\ rpc' = "poll"
                 /\ UNCHANGED outcome
            [] did = "hold" ->
                 /\ rchan' = Handled(rchan, pair.out, invNo, "live", NoValue)
                 /\ rpc' = "poll"
                 /\ UNCHANGED outcome
            [] OTHER ->
                 /\ rchan' = Handled(rchan, pair.out, invNo, "dropped", NoValue)
                 /\ rpc' = "failed"
                 /\ outcome' = Fail("handler trapped", <<>>)
    /\ UNCHANGED <<invocation, response, body, tests, testNo, scenario, invNo, request, pair>>
    /\ UNCHANGED <<bridgeVars, chanVars, compVars>>

\* The handler path completes after the entry point returned: an outparam
\* it still held is set.
HandlerCompletes ==
    /\ rpc = "poll"
    /\ \E h \in DOMAIN rchan :
          /\ rchan[h].inv # 0
          /\ rchan[h].tx = "live"
          /\ \E r \in RunResponses :
                rchan' = Handled(rchan, h, rchan[h].inv, "sent", OkValue(r))
    /\ UNCHANGED <<assertVars, tests, testNo, scenario, invNo, request, pair>>
    /\ UNCHANGED <<bridgeVars, chanVars, compVars>>

\* ResponseReceiver::get polling the first receiver of the store instead
\* of its own.
ResponseReceiver_getStale(table, rx) ==
    [table |-> [table EXCEPT ![1] = TryRecv(table[1]).chan],
     res |-> GetResult(TryRecv(table[1]), 1),
     value |-> TryRecv(table[1]).value]

\* ResponseReceiver::get of the runner (lines 206-220): the guest's
\* receiver resource rx polled once.
ResponseReceiver_get(table, rx) ==
    [table |-> [table EXCEPT ![rx] = TryRecv(table[rx]).chan],
     res |-> GetResult(TryRecv(table[rx]), 1),
     value |-> TryRecv(table[rx]).value]

\* Line 47: rx.get(&mut store)?.context("no response found")?
PollFailure(res) ==
    CASE res.kind = "Pending" -> Fail("no response found", <<>>)
      [] res.kind = "ProducerDropped" -> Fail("receiver error", <<>>)
      [] res.kind = "Failed" -> Fail("receiver error", <<>>)
      [] OTHER -> NoOutcome

Poll ==
    /\ rpc = "poll"
    /\ LET got == ResponseReceiver_get(rchan, pair.rx)
       IN /\ rchan' = got.table
          /\ IF got.res.kind = "Ready"
             THEN /\ response' = got.value.resp
                  /\ rpc' = "read"
                  /\ UNCHANGED outcome
             ELSE /\ outcome' = PollFailure(got.res)
                  /\ rpc' = "failed"
                  /\ UNCHANGED response
    /\ UNCHANGED <<invocation, body, tests, testNo, scenario, invNo, request, pair>>
    /\ UNCHANGED <<bridgeVars, chanVars, compVars>>

\* Line 98: on to the next invocation.
NextInvocation ==
    /\ rpc = "passed"
    /\ rpc' = "invocations"
    /\ UNCHANGED <<invocation, response, body, outcome, flowVars>>
    /\ UNCHANGED <<bridgeVars, chanVars, compVars>>

NextRun ==
    \/ StartTest
    \/ Finish
    \/ EndTest
    \/ BuildRequest
    \/ CallHandle
    \/ HandlerCompletes
    \/ Poll
    \/ ReadResponse
    \/ CheckStatus
    \/ CheckHeaders
    \/ CheckBody
    \/ NextInvocation

(***************************************************************************)
(* HTTP helper host: new_request (src/src/main.rs)                         *)
(***************************************************************************)
\* wasi:http Method and Scheme values as the outgoing request holds them.
Method(tag, other) == [tag |-> tag, other |-> other]
Scheme(tag, other) == [tag |-> tag, other |-> other]

\* HostOutgoingRequest: scheme, authority, path_with_query and body are
\* Options.
HostOutgoingRequest(method, scheme, authority, path, headers, hbody) ==
    [method |-> method, scheme |-> scheme, authority |-> authority,
     path_with_query |-> path, headers |-> headers, body |-> hbody]
NoHostRequest ==
    HostOutgoingRequest(Method("get", <<>>), None, None, None, <<>>, None)

Method_PURGE == <<80, 85, 82, 71, 69>>

\* hyper::Method::from_bytes: a non-empty token.
MethodFromBytes(o) ==
    [ok |-> /\ Len(o) > 0
            /\ \A i \in DOMAIN o :
                  o[i] >= 33 /\ o[i] <= 126 /\ o[i] \notin Separators,
     text |-> o]

Method_HEAD == <<72, 69, 65, 68>>
Method_PUT == <<80, 85, 84>>
Method_DELETE == <<68, 69, 76, 69, 84, 69>>
Method_CONNECT == <<67, 79, 78, 78, 69, 67, 84>>
Method_OPTIONS == <<79, 80, 84, 73, 79, 78, 83>>
Method_TRACE == <<84, 82, 65, 67, 69>>
Method_PATCH == <<80, 65, 84, 67, 72>>

\* The match on req.method.
HyperMethod(m) ==
    CASE m.tag = "get" -> [ok |-> TRUE, text |-> Method_GET]
      [] m.tag = "head" -> [ok |-> TRUE, text |-> Method_HEAD]
      [] m.tag = "post" -> [ok |-> TRUE, text |-> Method_POST]
      [] m.tag = "put" -> [ok |-> TRUE, text |-> Method_PUT]
      [] m.tag = "delete" -> [ok |-> TRUE, text |-> Method_DELETE]
      [] m.tag = "connect" -> [ok |-> TRUE, text |-> Method_CONNECT]
      [] m.tag = "options" -> [ok |-> TRUE, text |-> Method_OPTIONS]
      [] m.tag = "trace" -> [ok |-> TRUE, text |-> Method_TRACE]
      [] m.tag = "patch" -> [ok |-> TRUE, text |-> Method_PATCH]
      [] OTHER -> MethodFromBytes(m.other)

Text_http == <<104, 116, 116, 112>>
Text_https == <<104, 116, 116, 112, 115>>
Text_ftp == <<102, 116, 112>>
Text_sep == <<58, 47, 47>>
Text_localhost == <<108, 111, 99, 97, 108, 104, 111, 115, 116, 58, 51, 48, 48, 48>>
Text_slash == <<47>>

\* The match on req.scheme.
SchemeText(sc) ==
    IF ~sc.some \/ sc.v.tag = "http" THEN Text_http
    ELSE IF sc.v.tag = "https" THEN Text_https
    ELSE sc.v.other

unwrap_or(opt, default) == IF opt.some THEN opt.v ELSE default

\* format!("{}://{}{}", scheme, authority or localhost:3000, path or /)
FormatUri(req) ==
    SchemeText(req.scheme) \o Text_sep
      \o unwrap_or(req.authority, Text_localhost)
      \o unwrap_or(req.path_with_query, Text_slash)

\* ---- http::Uri parsing of the formatted text ----
Alnum(b) == (b >= 48 /\ b <= 57) \/ (b >= 65 /\ b <= 90) \/ (b >= 97 /\ b <= 122)
SchemeChar(b) == Alnum(b) \/ b \in {43, 45, 46, 126}
UriChar(b) ==
    b >= 33 /\ b <= 126 /\ b \notin {34, 37, 60, 62, 92, 94, 96, 123, 124, 125}
PathChar(b) ==
    \/ b = 33 \/ (b >= 36 /\ b <= 59) \/ b = 61 \/ (b >= 64 /\ b <= 95)
    \/ (b >= 97 /\ b <= 122) \/ b = 124 \/ b = 126 \/ b \in {34, 123, 125}
    \/ b >= 127
QueryChar(b) == b = 33 \/ (b >= 36 /\ b <= 59) \/ b = 61 \/ b >= 63

HasPrefixNoCase(u, p) ==
    Len(u) >= Len(p) /\ to_ascii_lowercase(SubSeq(u, 1, Len(p))) = to_ascii_lowercase(p)

\* Scheme2::parse: no scheme, one of the two standard schemes whatever
\* its case, another scheme of n characters in front of "://", or the
\* error for a scheme of more than 64 characters.
Scheme2(kind, n) == [kind |-> kind, len |-> n]
Scheme2_parse(u) ==
    IF HasPrefixNoCase(u, Text_http \o Text_sep) THEN Scheme2("standard", 4)
    ELSE IF HasPrefixNoCase(u, Text_https \o Text_sep) THEN Scheme2("standard", 5)
    ELSE IF Len(u) <= 3 THEN Scheme2("none", 0)
    ELSE LET stops == {i \in DOMAIN u : ~SchemeChar(u[i])}
         IN IF stops = {} THEN Scheme2("none", 0)
            ELSE LET i == CHOOSE k \in stops : \A j \in stops : k <= j
                 IN IF /\ u[i] = 58
                       /\ Len(u) >= i + 2
                       /\ u[i + 1] = 47 /\ u[i + 2] = 47
                    THEN IF i - 1 > 64 THEN Scheme2("too_long", i - 1)
                         ELSE Scheme2("other", i - 1)
                    ELSE Scheme2("none", 0)

\* Authority::parse: where the authority ends, or that it is empty or
\* invalid.
AuthorityStart ==
    [colons |-> 0, open |-> FALSE, close |-> FALSE, percent |-> FALSE,
     at |-> 0, end |-> 0, ok |-> TRUE]
RECURSIVE AuthorityScan(_, _, _)
AuthorityScan(t, i, st) ==
    IF i > Len(t) THEN [st EXCEPT !.end = Len(t)]
    ELSE LET b == t[i]
         IN CASE b \in {47, 63, 35} -> [st EXCEPT !.end = i - 1]
              [] b = 58 ->
                   IF st.colons >= 8 THEN [st EXCEPT !.ok = FALSE]
                   ELSE AuthorityScan(t, i + 1, [st EXCEPT !.colons = @ + 1])
              [] b = 91 ->
                   IF st.percent \/ st.open THEN [st EXCEPT !.ok = FALSE]
                   ELSE AuthorityScan(t, i + 1, [st EXCEPT !.open = TRUE])
              [] b = 93 ->
                   IF ~st.open \/ st.close THEN [st EXCEPT !.ok = FALSE]
                   ELSE AuthorityScan(t, i + 1,
                            [st EXCEPT !.close = TRUE, !.colons = 0, !.percent = FALSE])
              [] b = 64 ->
                   AuthorityScan(t, i + 1,
                       [st EXCEPT !.at = i, !.colons = 0, !.percent = FALSE])
              [] b = 37 -> AuthorityScan(t, i + 1, [st EXCEPT !.percent = TRUE])
              [] ~UriChar(b) -> [st EXCEPT !.ok = FALSE]
              [] OTHER -> AuthorityScan(t, i + 1, st)
Authority_parse(t) ==
    LET st == AuthorityScan(t, 1, AuthorityStart)
    IN [ok |-> /\ Len(t) > 0
               /\ st.ok
               /\ st.open = st.close
               /\ st.colons <= 1
               /\ ~(st.end > 0 /\ st.at = st.end)
               /\ ~st.percent,
        end |-> st.end]

\* PathAndQuery::from_shared: the path and query without the fragment, or
\* that a character is invalid or the text is not UTF-8. data is what is
\* stored, text what as_str gives: / for empty data.
PathAndQuery_parse(t) ==
    LET marks == {i \in DOMAIN t : t[i] \in {63, 35}}
        pathEnd == IF marks = {} THEN Len(t) + 1
                   ELSE CHOOSE k \in marks : \A j \in marks : k <= j
        hashes == {i \in DOMAIN t : t[i] = 35}
        stop == IF hashes = {} THEN Len(t) + 1
                ELSE CHOOSE k \in hashes : \A j \in hashes : k <= j
        data == SubSeq(t, 1, stop - 1)
    IN [ok |-> /\ \A i \in 1..(pathEnd - 1) : PathChar(t[i])
               /\ \A i \in (pathEnd + 1)..(stop - 1) : QueryChar(t[i])
               /\ from_utf8_ok(data),
        data |-> data,
        text |-> IF data = <<>> THEN Text_slash ELSE data]

\* A Uri as its accessors scheme(), authority() and path_and_query() show
\* it: each an Option.
Uri(scheme, authority, path) ==
    [scheme |-> scheme, authority |-> authority, path_and_query |-> path]
NoUri == Uri(None, None, None)
Text_star == <<42>>

\* Authority::from_shared: the whole text is the authority.
Authority_from_shared(t) ==
    LET a == Authority_parse(t) IN Len(t) > 0 /\ a.ok /\ a.end = Len(t)

\* parse_full: the absolute form and the authority form.
parse_full(u) ==
    LET sch == Scheme2_parse(u)
        rest == IF sch.kind = "none" THEN u ELSE SubSeq(u, sch.len + 4, Len(u))
        a == Authority_parse(rest)
        pq == PathAndQuery_parse(SubSeq(rest, a.end + 1, Len(rest)))
        scheme == IF sch.kind = "standard"
                  THEN to_ascii_lowercase(SubSeq(u, 1, sch.len))
                  ELSE SubSeq(u, 1, sch.len)
    IN IF sch.kind = "too_long" \/ ~a.ok THEN [ok |-> FALSE, uri |-> NoUri]
       ELSE IF sch.kind = "none"
            THEN IF a.end # Len(rest) THEN [ok |-> FALSE, uri |-> NoUri]
                 ELSE [ok |-> TRUE, uri |-> Uri(None, Some(rest), None)]
            ELSE IF a.end = 0 \/ ~pq.ok THEN [ok |-> FALSE, uri |-> NoUri]
                 ELSE [ok |-> TRUE,
                       uri |-> Uri(Some(scheme), Some(SubSeq(rest, 1, a.end)),
                                   Some(pq.text))]

\* Uri::from_shared, which TryFrom<String> calls: the empty text and the
\* text of more than u16::MAX - 1 bytes, the texts of one character, the
\* origin form, and parse_full for the rest.
Uri_parse(u) ==
    IF Len(u) = 0 \/ Len(u) > 65534 THEN [ok |-> FALSE, uri |-> NoUri]
    ELSE IF u = Text_slash THEN [ok |-> TRUE, uri |-> Uri(None, None, Some(Text_slash))]
    ELSE IF u = Text_star THEN [ok |-> TRUE, uri |-> Uri(None, None, Some(Text_star))]
    ELSE IF Len(u) = 1
         THEN IF Authority_from_shared(u)
              THEN [ok |-> TRUE, uri |-> Uri(None, Some(u), None)]
              ELSE [ok |-> FALSE, uri |-> NoUri]
    ELSE IF u[1] = 47
         THEN LET pq == PathAndQuery_parse(u)
              IN IF pq.ok THEN [ok |-> TRUE, uri |-> Uri(None, None, Some(pq.text))]
                 ELSE [ok |-> FALSE, uri |-> NoUri]
    ELSE parse_full(u)

\* Uri::path and Uri::query: the path is / when nothing stands in front
\* of the query, and empty when the Uri has no path and query.
Uri_path(uri) ==
    IF ~uri.path_and_query.some THEN <<>>
    ELSE LET t == uri.path_and_query.v
             qs == {i \in DOMAIN t : t[i] = 63}
             p == IF qs = {} THEN t
                  ELSE SubSeq(t, 1, (CHOOSE k \in qs : \A j \in qs : k <= j) - 1)
         IN IF p = <<>> THEN Text_slash ELSE p
Uri_query(uri) ==
    IF ~uri.path_and_query.some THEN None
    ELSE LET t == uri.path_and_query.v
             qs == {i \in DOMAIN t : t[i] = 63}
         IN IF qs = {} THEN None
            ELSE Some(SubSeq(t, (CHOOSE k \in qs : \A j \in qs : k <= j) + 1, Len(t)))

\* Display for Uri.
UriText(uri) ==
    (IF uri.scheme.some THEN uri.scheme.v \o Text_sep ELSE <<>>)
      \o (IF uri.authority.some THEN uri.authority.v ELSE <<>>)
      \o Uri_path(uri)
      \o (IF Uri_query(uri).some THEN <<63>> \o Uri_query(uri).v ELSE <<>>)

\* The loop over req.headers: builder.header(name, value) from header i on.
RECURSIVE CopyHeaders(_, _, _)
CopyHeaders(headers, i, built) ==
    IF i > Len(headers) THEN built
    ELSE CopyHeaders(headers, i + 1, Append(built, headers[i]))

\* The body of an incoming request: the one the outgoing request held, or
\* body::empty().
SuppliedBody(bytes) == [kind |-> "supplied", bytes |-> bytes]
EmptyBody == [kind |-> "empty", bytes |-> <<>>]

IncomingRequest(method, uri, headers, ibody) ==
    [method |-> method, uri |-> uri, headers |-> headers, body |-> ibody]
NoIncomingRequest == IncomingRequest(<<>>, NoUri, <<>>, EmptyBody)

\* req.body.take() leaving the body where it is.
Option_takeKeeps(req) == [value |-> req.body, req |-> req]

\* req.body.take()
Option_take(req) == [value |-> req.body, req |-> [req EXCEPT !.body = None]]

\* Host::new_request: the incoming request pushed to the table ("Ok"), the
\* error returned for a method that is no token ("Err"), or the unwrap of
\* a request the builder rejected ("Panic").
new_request(req) ==
    LET method == HyperMethod(req.method)
        parsed == Uri_parse(FormatUri(req))
        headers == CopyHeaders(req.headers, 1, <<>>)
        took == Option_take(req)
        ibody == IF took.value.some THEN SuppliedBody(took.value.v) ELSE EmptyBody
    IN IF ~method.ok
       THEN [res |-> "Err", req |-> req, incoming |-> NoIncomingRequest]
       ELSE IF ~parsed.ok
            THEN [res |-> "Panic", req |-> took.req, incoming |-> NoIncomingRequest]
            ELSE [res |-> "Ok", req |-> took.req,
                  incoming |-> IncomingRequest(method.text, parsed.uri, headers, ibody)]

\* Outgoing requests the conversion is tried on, as a guest can build them
\* through the setters of wasi:http/types: among them a standard scheme
\* in upper case given as Other, an empty path and a path that is "@".
Authority_ab == <<97, 46, 98>>
Path_x == <<47, 120>>
Path_at == <<64>>
Path_q == <<47, 120, 63, 113, 61, 49>>
Text_HTTP == <<72, 84, 84, 80>>
HostMethods ==
    {Method("get", <<>>), Method("head", <<>>), Method("post", <<>>),
     Method("other", Method_PURGE)}
HostSchemes ==
    {None, Some(Scheme("http", <<>>)), Some(Scheme("https", <<>>)),
     Some(Scheme("other", Text_ftp)), Some(Scheme("other", Text_HTTP))}
HostAuthorities == {None, Some(Authority_ab)}
HostPaths == {None, Some(<<>>), Some(Path_x), Some(Path_q), Some(Path_at)}
HostHeaders == {<<>>, <<<<Name_n, Value_e>>, <<Name_m, Value_E>>>>}
HostBodies == {None, Some(Body_ok), Some(<<>>)}
HostRequests ==
    {HostOutgoingRequest(m, sc, a, pth, h, b) :
        m \in HostMethods, sc \in HostSchemes, a \in HostAuthorities,
        pth \in HostPaths, h \in HostHeaders, b \in HostBodies}

Conversion(res, incoming) == [res |-> res, incoming |-> incoming]

InitBridge ==
    /\ hreq \in HostRequests
    /\ converted = <<>>

\* A guest calls new-request on the outgoing request it holds. A panic
\* ends the run.
Host_new_request ==
    /\ Len(converted) < MaxConversions
    /\ \A i \in DOMAIN converted : converted[i].res # "Panic"
    /\ LET r == new_request(hreq)
       IN /\ hreq' = r.req
          /\ converted' = Append(converted, Conversion(r.res, r.incoming))
    /\ UNCHANGED <<chanVars, compVars, assertVars, flowVars>>

NextBridge == Host_new_request

(***************************************************************************)
(* Specifications                                                          *)
(***************************************************************************)
CompIdle ==
    /\ driver = "none"
    /\ inputs = NoInputs
    /\ graph = NewGraph
    /\ handles = NoHandles
    /\ pc = "none"
    /\ lastCall = NoCall
    /\ artifact = NoArtifact

FlowIdle ==
    /\ tests = 0
    /\ testNo = 0
    /\ scenario = <<>>
    /\ invNo = 0
    /\ request = NoRequest
    /\ rchan = <<>>
    /\ pair = NoPair

AssertIdle ==
    /\ rpc = "none"
    /\ invocation = NoInvocation
    /\ response = NoResponse
    /\ body = <<>>
    /\ outcome = NoOutcome
    /\ FlowIdle

BridgeIdle == hreq = NoHostRequest /\ converted = <<>>

InitChan == ChanStart /\ CompIdle /\ AssertIdle /\ BridgeIdle
SpecChan == InitChan /\ [][NextChan]_vars

InitCompSpec == InitComp /\ ChanStart /\ AssertIdle /\ BridgeIdle
SpecComp == InitCompSpec /\ [][NextComp]_vars

InitAssertSpec == InitAssert /\ FlowIdle /\ ChanStart /\ CompIdle /\ BridgeIdle
SpecAssert == InitAssertSpec /\ [][NextAssert]_vars

InitBridgeSpec == InitBridge /\ ChanStart /\ CompIdle /\ AssertIdle
SpecBridge == InitBridgeSpec /\ [][NextBridge]_vars

InitRunSpec == InitRun /\ ChanStart /\ CompIdle /\ BridgeIdle
SpecRun == InitRunSpec /\ [][NextRun]_vars

(***************************************************************************)
(* Claims about the response channel                                       *)
(***************************************************************************)
\* The get call that this step made on receiver r, if it made one.
Polled(r) == Len(polls'[r]) = Len(polls[r]) + 1
LastPoll(r) == polls'[r][Len(polls'[r])]
OnlyPendingSoFar(r) == \A i \in DOMAIN polls[r] : polls[r][i].kind = "Pending"

\* C1: a get made while the outparam was neither set nor dropped returns
\* Pending; the first get after the outparam was set returns the produced
\* response (a fresh handle to a response with the produced status, headers
\* and body) or fails with
\* the produced error code; a get made after the outparam was dropped unset
\* reports ProducerDropped, not Pending.
C1_PollReflectsProducer ==
    [][\A r \in ReceiverIds :
         Polled(r) =>
            /\ (chan[r].tx = "live" => LastPoll(r) = Pending)
            /\ (chan[r].tx = "sent" /\ OnlyPendingSoFar(r) /\ sent[r].tag = "ok" =>
                    /\ LastPoll(r).kind = "Ready"
                    /\ LastPoll(r).handle \in DOMAIN respTable'
                    /\ LastPoll(r).handle \notin DOMAIN respTable
                    /\ respTable'[LastPoll(r).handle].status = sent[r].resp.status
                    /\ respTable'[LastPoll(r).handle].headers = sent[r].resp.headers
                    /\ respTable'[LastPoll(r).handle].body = Some(sent[r].resp.body))
            /\ (chan[r].tx = "sent" /\ OnlyPendingSoFar(r) /\ sent[r].tag = "err" =>
                    LastPoll(r) = Failed(sent[r].code))
            /\ (chan[r].tx = "dropped" => LastPoll(r) = ProducerDropped)]_vars

\* C1 witness: one receiver was polled before and after its production and
\* delivered the response, another reported its dropped producer.
C1_Witness ==
    \E r, q \in ReceiverIds :
        /\ Len(polls[r]) = 2
        /\ polls[r][1] = Pending
        /\ polls[r][2].kind = "Ready"
        /\ respTable[polls[r][2].handle].status = 500
        /\ chan[q].tx = "dropped"
        /\ Len(polls[q]) = 1
        /\ polls[q][1] = ProducerDropped

\* C2: once a get on a receiver has observed a terminal state, every later
\* get on that receiver observes the same terminal state.
C2_TerminalNeverReversed ==
    \A r \in ReceiverIds :
        \A i, j \in DOMAIN polls[r] :
            (i < j /\ polls[r][i].kind # "Pending") =>
                polls[r][j].kind = polls[r][i].kind

(***************************************************************************)
(* Claims about the composition builder                                    *)
(***************************************************************************)
\* This step made an instantiate call; the node it creates is NewNode.
InstantiateCalled == lastCall'.op = "instantiate" /\ lastCall' # lastCall
ExportCalled == lastCall'.op = "export" /\ lastCall' # lastCall
NewNode == Len(graph.nodes) + 1
Accepted == lastCall'.pkg.valid /\ lastCall'.pname \notin graph.registered

\* What argument a of the call offers, read off the graph before the call:
\* whether the export behind it exists, its type, and the node that stands
\* for it in graph g.
ArgPresent(a) ==
    ~a.lazy \/ HasItem(graph.nodes[a.node].pkg.exports, a.name)
ArgTy(a) ==
    IF a.lazy THEN ItemTy(graph.nodes[a.node].pkg.exports, a.name)
    ELSE graph.nodes[a.node].ty
ArgNode(g, a) ==
    IF a.lazy
    THEN CHOOSE n \in DOMAIN g.nodes :
            /\ g.nodes[n].kind = "alias"
            /\ g.nodes[n].src = a.node
            /\ g.nodes[n].name = a.name
    ELSE a.node
SameExport(a, b) == a.lazy = b.lazy /\ a.node = b.node /\ (a.lazy => a.name = b.name)

\* How argument i of the call fares against the package's declared imports.
UnknownName(c, i) == ~HasItem(c.pkg.imports, c.args[i].name)
Mistyped(c, i) ==
    /\ ArgPresent(c.args[i])
    /\ ~UnknownName(c, i)
    /\ ArgTy(c.args[i]) # ItemTy(c.pkg.imports, c.args[i].name)
Duplicate(c, i) ==
    /\ ArgPresent(c.args[i])
    /\ ~UnknownName(c, i)
    /\ ~Mistyped(c, i)
    /\ \E k \in 1..(i - 1) :
          /\ c.args[k].name = c.args[i].name
          /\ ~SameExport(c.args[k], c.args[i])
WiringFailure(c, i) == Mistyped(c, i) \/ Duplicate(c, i)
Stops(c, i) == WiringFailure(c, i) \/ ~ArgPresent(c.args[i])
Reached(c, i) == \A k \in 1..(i - 1) : ~Stops(c, k)
Wirable(c, i) == ~UnknownName(c, i) /\ ~Stops(c, i)
WiredInto(g, node) == {e \in g.edges : e.dst = node}

\* C4: an argument of instantiate whose name the package does not import
\* adds no edge; the arguments after it are still wired; and the call
\* returns the new node when no argument fails otherwise.
C4_UnknownImportIsNoOp ==
    [][(InstantiateCalled /\ Accepted) =>
         LET c == lastCall'
         IN \A i \in DOMAIN c.args :
              (UnknownName(c, i) /\ Reached(c, i)) =>
                 /\ \A e \in WiredInto(graph', NewNode) : e.arg # c.args[i].name
                 /\ \A j \in DOMAIN c.args :
                      (j > i /\ Reached(c, j) /\ Wirable(c, j)) =>
                         ArgEdge(ArgNode(graph', c.args[j]), NewNode, c.args[j].name)
                            \in graph'.edges
                 /\ (\A j \in DOMAIN c.args : ~Stops(c, j)) =>
                         (c.res = "Ok" /\ c.node = NewNode)]_vars

\* C4 witness: a successful instantiate whose first argument names no
\* import of the package and whose later argument was wired.
C4_Witness ==
    /\ lastCall.op = "instantiate"
    /\ lastCall.res = "Ok"
    /\ \E i, j \in DOMAIN lastCall.args :
          /\ i < j
          /\ ~HasItem(lastCall.pkg.imports, lastCall.args[i].name)
          /\ \E e \in graph.edges :
                e.dst = lastCall.node /\ e.arg = lastCall.args[j].name

\* C5: a malformed package fails instantiate before the graph is touched;
\* a type mismatch or a duplicate wiring fails it at that argument, with
\* exactly the arguments before it wired; and a failed instantiate in
\* encode_composition aborts the build, which then never encodes.
C5_WiringFailureIsFatal ==
    [][/\ InstantiateCalled =>
            LET c == lastCall'
            IN /\ ~c.pkg.valid => (c.res = "Err" /\ graph' = graph)
               /\ Accepted =>
                    \A i \in DOMAIN c.args :
                       (WiringFailure(c, i) /\ Reached(c, i)) =>
                          /\ c.res = "Err"
                          /\ c.at = i
                          /\ WiredInto(graph', NewNode) =
                                {ArgEdge(ArgNode(graph', c.args[k]), NewNode, c.args[k].name) :
                                    k \in {k \in 1..(i - 1) : Wirable(c, k)}}
               /\ (driver = "encode_composition" /\ c.res # "Ok") => pc' = "panicked"
       /\ pc' = "panicked" => ~artifact'.encoded
       /\ pc = "panicked" => pc' = "panicked"]_vars

\* C5 witness: encode_composition aborted on a type mismatch that was not
\* the last argument, and a later import of the package stayed unwired.
C5_Witness ==
    /\ pc = "panicked"
    /\ lastCall.op = "instantiate"
    /\ lastCall.err = "ArgumentTypeMismatch"
    /\ lastCall.at < Len(lastCall.args)
    /\ \E j \in DOMAIN lastCall.args :
          /\ j > lastCall.at
          /\ HasItem(lastCall.pkg.imports, lastCall.args[j].name)
          /\ \A e \in graph.edges : e.arg # lastCall.args[j].name

\* C6: Instance::export of a name the instance's package does not export
\* returns None and leaves the graph as it was; of a name it exports, it
\* returns the alias node of that export.
C6_MissingExportIsAbsent ==
    [][ExportCalled =>
         LET c == lastCall'
             exports == graph.nodes[c.inst].pkg.exports
         IN /\ ~HasItem(exports, c.name) => (c.res = "None" /\ graph' = graph)
            /\ HasItem(exports, c.name) =>
                 /\ c.res = "Some"
                 /\ c.node \in DOMAIN graph'.nodes
                 /\ graph'.nodes[c.node] =
                        AliasNode(c.inst, c.name, ItemTy(exports, c.name))
                 /\ graph'.edges = graph.edges]_vars

\* C6 witness: a lookup of a missing export returned None on a graph that
\* already holds an alias made by an earlier lookup.
C6_Witness ==
    /\ lastCall.op = "export"
    /\ lastCall.res = "None"
    /\ \E n \in DOMAIN graph.nodes :
          graph.nodes[n].kind = "alias" /\ graph.nodes[n].src = lastCall.inst

(***************************************************************************)
(* Claims about the runner's assertions                                    *)
(***************************************************************************)
HeaderFailures ==
    {"expected header not found", "header value mismatch", "unexpected headers",
     "header value is not utf-8"}
\* The header check of the invocation has run, and how it ended.
HeaderCheckFailed == rpc = "failed" /\ outcome.failure \in HeaderFailures
HeaderCheckPassed ==
    \/ rpc \in {"body", "passed"}
    \/ rpc = "failed" /\ outcome.failure = "body mismatch"
HeaderCheckDone == HeaderCheckFailed \/ HeaderCheckPassed
HeaderOutcome == IF HeaderCheckFailed THEN outcome ELSE Pass

\* The expected headers as the entries a handler would send for them.
AsEntries(hs) == [i \in DOMAIN hs |-> <<hs[i].name, hs[i].value.v>>]
AllRequiredWithValue(hs) ==
    \A i \in DOMAIN hs : hs[i].value.some /\ ~hs[i].optional
Without(q, k) == [i \in 1..(Len(q) - 1) |-> IF i < k THEN q[i] ELSE q[i + 1]]
SameButCase(a, b) == to_lowercase(a) = to_lowercase(b)

\* The response's headers against the expected list H.
Echoed(H, actual) == actual = AsEntries(H)
OneMissing(H, actual) == \E k \in DOMAIN H : actual = Without(AsEntries(H), k)
OneExtra(H, actual) == \E k \in DOMAIN actual : Without(actual, k) = AsEntries(H)
OneValueDiffers(H, actual) ==
    /\ Len(actual) = Len(H)
    /\ \E k \in DOMAIN H :
          /\ ~SameButCase(actual[k][2], H[k].value.v)
          /\ \A i \in DOMAIN H :
                /\ actual[i][1] = H[i].name
                /\ i # k => actual[i][2] = H[i].value.v

\* C7: when the response carries exactly the expected headers H (any case,
\* names possibly repeated) the header check succeeds; when it differs from
\* H by one missing required header, one extra header or one value that
\* differs other than by case, the header check fails.
C7_HeaderRoundTrip ==
    (HeaderCheckDone /\ AllRequiredWithValue(invocation.response.headers)) =>
        /\ Echoed(invocation.response.headers, response.headers) => HeaderCheckPassed
        /\ (\/ OneMissing(invocation.response.headers, response.headers)
            \/ OneExtra(invocation.response.headers, response.headers)
            \/ OneValueDiffers(invocation.response.headers, response.headers))
              => HeaderCheckFailed

\* The entries of q filed under name n, whatever the case.
EntriesNamed(actual, n) ==
    {i \in DOMAIN actual : to_lowercase(actual[i][1]) = to_lowercase(n)}
ExpectedNamed(hs, n) ==
    {i \in DOMAIN hs : to_lowercase(hs[i].name) = to_lowercase(n)}

\* C8: the header check passes only if every actual header entry is
\* matched by an expected header of its own: under each name the response
\* has no more entries than the expected list.
C8_UnmatchedActualFails ==
    HeaderCheckPassed =>
        \A k \in DOMAIN response.headers :
            Cardinality(EntriesNamed(response.headers, response.headers[k][1]))
                <= Cardinality(ExpectedNamed(invocation.response.headers, response.headers[k][1]))

\* Expected header i has no case-insensitive match among the actual entries.
NoMatch(i) == EntriesNamed(response.headers, invocation.response.headers[i].name) = {}
Matched(hs) ==
    SelectSeq(hs, LAMBDA h : ~(h.optional /\ EntriesNamed(response.headers, h.name) = {}))

\* C9: a required expected header without a match fails the invocation,
\* with or without a declared value; an optional one without a match is
\* passed over: the header check ends as it would without that header.
C9_AbsentOptionalRequired ==
    HeaderCheckDone =>
        /\ (\E i \in DOMAIN invocation.response.headers :
                NoMatch(i) /\ ~invocation.response.headers[i].optional) => HeaderCheckFailed
        /\ HeaderOutcome = AssertHeaders(response.headers, Matched(invocation.response.headers))

\* C9 witness: an invocation passed whose first expected header is
\* optional and absent from the response and whose second one matched.
C9_Witness ==
    /\ rpc = "passed"
    /\ Len(invocation.response.headers) = 2
    /\ invocation.response.headers[1].optional
    /\ NoMatch(1)
    /\ ~NoMatch(2)

\* sub occurs in text as a run of consecutive bytes.
Includes(text, sub) ==
    \E off \in 0..(Len(text) - Len(sub)) :
        \A i \in DOMAIN sub : text[off + i] = sub[i]

Ended == rpc \in {"passed", "failed"}

\* The failures of lines 49-55: a guest call failed, the guest refused the
\* body or its stream, or the stream's read returned an error.
ReadFailures ==
    {"IncomingResponse::status", "IncomingResponse::consume",
     "response body already consumed", "IncomingBody::stream",
     "response body stream already consumed", "InputStream::blocking_read",
     "stream error"}

\* C10 as claimed: whenever the actual status differs from the expected
\* one the invocation fails with a status mismatch whose message includes
\* the actual response body; equal statuses never fail the status check.
C10_StatusMismatchShowsBody ==
    /\ (Ended /\ response.status # invocation.response.status) =>
          /\ outcome.result = "fail"
          /\ outcome.failure = "status mismatch"
          /\ Includes(outcome.message, response.body)
    /\ response.status = invocation.response.status => outcome.failure # "status mismatch"

\* C10 amended: whenever the statuses differ the invocation fails: with the
\* failure of reading the response (lines 49-55) when the status or the
\* body cannot be read, otherwise with a status mismatch whose message ends
\* with the body as decoded: the body itself if it is valid UTF-8,
\* "invalid utf-8" if not. Equal statuses never fail the status check.
C10_StatusMismatchShowsDecodedBody ==
    /\ response.status # invocation.response.status =>
          /\ rpc \notin {"headers", "body", "passed"}
          /\ Ended =>
                /\ outcome.result = "fail"
                /\ \/ outcome.failure \in ReadFailures
                   \/ /\ outcome.failure = "status mismatch"
                      /\ outcome.message = StatusMessagePrefix \o
                            (IF from_utf8_ok(response.body) THEN response.body
                             ELSE InvalidUtf8Text)
                /\ outcome.failure = "stream error" => response.stream = "error"
    /\ response.status = invocation.response.status => outcome.failure # "status mismatch"

\* C10 witness: a status mismatch on a response whose body is not UTF-8:
\* the message shows "invalid utf-8" and not the body's bytes.
C10_Witness ==
    /\ rpc = "failed"
    /\ outcome.failure = "status mismatch"
    /\ response.status = 500
    /\ ~from_utf8_ok(response.body)
    /\ Includes(outcome.message, InvalidUtf8Text)
    /\ ~Includes(outcome.message, response.body)

(***************************************************************************)
(* Claims about the runner's loops                                         *)
(***************************************************************************)
\* C3: an invocation is never failed because its receiver was still
\* pending when polled: the runner polls until the receiver is terminal.
C3_NeverFailsOnPending ==
    ~(rpc = "failed" /\ outcome.failure = "no response found")


(***************************************************************************)
(* Claims about the conformance run                                        *)
(***************************************************************************)
RunOver == ~ENABLED NextRun
InvocationFailed == rpc = "failed" /\ invNo > 0

\* C12: a failing invocation does not abort the other tests of the run:
\* when the run is over after an invocation failed, every test artifact of
\* the run has been set up and run.
C12_FailureDoesNotAbortOthers ==
    (RunOver /\ InvocationFailed) => testNo = tests


Submitted == rpc \in {"handle", "poll", "read", "status", "headers", "body", "passed"}

\* C14: the request submitted for an invocation has the invocation's
\* declared method, GET when none is declared, the declared path, and the
\* declared headers in declared order.
C14_RequestAsDeclared ==
    Submitted =>
        /\ request.method = unwrap_or(invocation.request.method, Method_GET)
        /\ request.path = Some(invocation.request.path)
        /\ request.headers = invocation.request.headers

Building == rpc = "invocations" /\ invNo' = invNo + 1
Declared == scenario[invNo + 1]
AppendFails(hs) == \E i \in DOMAIN hs : ~HeaderNameOk(hs[i][1])
\* An append failed: it returned a HeaderError, or the call itself failed.
AppendFailures == {"header error", "Fields::append"}

\* C17: request headers are appended in declared order; when an append
\* fails, by a HeaderError or by the call failing, the invocation fails
\* with it: no outgoing request is built, no (outparam, receiver) pair is
\* made, and nothing runs after the failure. A request is submitted only
\* with every declared header appended, in declared order.
C17_AppendFailureAborts ==
    [][ /\ Building =>
              /\ invocation' = Declared
              /\ outcome'.failure \in AppendFailures =>
                    /\ rpc' = "failed"
                    /\ request' = request
                    /\ rchan' = rchan
                    /\ pair' = pair
              /\ AppendFails(Declared.request.headers) =>
                    /\ rpc' = "failed"
                    /\ outcome'.failure \in AppendFailures \cup {"Fields::new"}
              /\ rpc' = "handle" => request'.headers = Declared.request.headers
        /\ ~(rpc = "failed" /\ outcome.failure \in AppendFailures)
      ]_vars

\* C17 witness: an append call failed for an invocation declaring two
\* headers with valid names, and the invocation has failed with no request
\* and no pair made.
C17_Witness ==
    /\ rpc = "failed"
    /\ outcome.failure = "Fields::append"
    /\ Len(invocation.request.headers) = 2
    /\ ~AppendFails(invocation.request.headers)
    /\ request = NoRequest
    /\ pair = NoPair

Asserting == rpc \in {"read", "status", "headers", "body"}
\* The channels whose outparam was given to the call_handle of invocation n.
Own(table, n) == {h \in DOMAIN table : table[h].inv = n}

\* C18: the invocations of a scenario run in declared order, one at a
\* time: the next one is built only when the one before has passed. Each
\* submitted invocation holds a pair whose handles were not in the store
\* before and whose channel is new; its call_handle is given the outparam
\* of that pair; its poll reads the receiver of that pair only, and the
\* response then asserted is the one sent through that outparam. The
\* response stays the same until the invocation has ended.
C18_OneInvocationAtATime ==
    [][ /\ Building =>
              /\ invocation' = Declared
              /\ invNo >= 1 => outcome = Pass
        /\ (rpc' = "handle" /\ rpc # "handle") =>
              /\ Building
              /\ pair'.out \notin DOMAIN rchan
              /\ pair'.rx \notin DOMAIN rchan
              /\ pair'.out = pair'.rx
              /\ pair'.rx \in DOMAIN rchan'
              /\ rchan'[pair'.rx] = PairChannel
              /\ \A h \in DOMAIN rchan : rchan'[h] = rchan[h]
        /\ rpc = "handle" => Own(rchan', invNo) = {pair.out}
        /\ (rpc = "poll" /\ rpc' # "poll") =>
              /\ \A h \in DOMAIN rchan \ {pair.rx} : rchan'[h] = rchan[h]
              /\ IF rchan[pair.rx].tx = "sent" /\ rchan[pair.rx].value.tag = "ok"
                 THEN /\ rpc' = "read"
                      /\ Own(rchan, invNo) = {pair.rx}
                      /\ response' = rchan[pair.rx].value.resp
                 ELSE rpc' = "failed"
        /\ Asserting => (response' = response /\ invocation' = invocation /\ invNo' = invNo)
      ]_vars

\* C18 witness: the second invocation of a scenario has passed on the
\* response sent through its own outparam, the second pair of the store; the
\* first invocation would not have passed on that response.
C18_Witness ==
    /\ rpc = "passed"
    /\ invNo = 2
    /\ scenario[1] # scenario[2]
    /\ invocation = scenario[2]
    /\ Len(rchan) = 2
    /\ pair = [out |-> 2, rx |-> 2]
    /\ Own(rchan, 1) = {1}
    /\ Own(rchan, 2) = {2}
    /\ AssertHeaders(response.headers, scenario[1].response.headers).result = "fail"


(***************************************************************************)
(* Claims about the body assertion                                         *)
(***************************************************************************)
\* C19: the body is asserted only if an expected body is declared. Reading
\* the body never fails on its content: the read ends with the body
\* decoded, "invalid utf-8" for bytes that are not UTF-8, or with a failure
\* of lines 49-55. The status check and the header check end as the
\* statuses and the headers decide. At the body check an invocation that
\* declares no body passes whatever the body is; one that declares a body
\* passes iff the decoded body equals it. A body mismatch is reported at
\* the body check of an invocation that declares a body only.
C19_BodyAssertedOnlyIfDeclared ==
    [][ /\ rpc = "read" =>
              \/ /\ rpc' = "status"
                 /\ body' = (IF from_utf8_ok(response.body) THEN response.body
                             ELSE InvalidUtf8Text)
              \/ /\ rpc' = "failed"
                 /\ outcome'.failure \in ReadFailures
                 /\ outcome'.failure = "stream error" => response.stream = "error"
        /\ rpc = "status" =>
              (rpc' = "failed" <=> response.status # invocation.response.status)
        /\ rpc = "headers" =>
              \/ /\ rpc' = "failed"
                 /\ outcome'.failure \in {"IncomingResponse::headers", "Fields::entries"}
              \/ /\ rpc' = (IF AssertHeaders(response.headers,
                                             invocation.response.headers).result = "pass"
                            THEN "body" ELSE "failed")
                 /\ rpc' = "failed" => outcome'.failure \in HeaderFailures
        /\ rpc = "body" =>
              IF invocation.response.body.some /\ body # invocation.response.body.v
              THEN rpc' = "failed" /\ outcome'.failure = "body mismatch"
              ELSE rpc' = "passed" /\ outcome' = Pass
        /\ outcome'.failure = "body mismatch" =>
              (rpc = "body" /\ invocation.response.body.some)
      ]_vars

\* C19 witness: an invocation without a declared body has passed on a
\* response whose body is not valid UTF-8.
C19_Witness ==
    /\ rpc = "passed"
    /\ ~invocation.response.body.some
    /\ ~from_utf8_ok(response.body)
    /\ body = InvalidUtf8Text

(***************************************************************************)
(* Claims about new_request                                                *)
(***************************************************************************)
Converting == Len(converted') = Len(converted) + 1
LastConversion == converted'[Len(converted')]
WithSuppliedBody(log) ==
    {i \in DOMAIN log : log[i].res = "Ok" /\ log[i].incoming.body.kind = "supplied"}

\* C13: new_request moves the body out of the outgoing request. A
\* conversion that succeeds leaves the body slot empty and gives the
\* incoming request the body the slot held, or the empty body when it held
\* none; of all conversions of one outgoing request at most one carries a
\* supplied body and every later one carries the empty body; method,
\* scheme, authority, path and headers of the outgoing request stay as
\* they are.
C13_BodyMovesOnce ==
    [][ Converting =>
          /\ hreq'.method = hreq.method
          /\ hreq'.scheme = hreq.scheme
          /\ hreq'.authority = hreq.authority
          /\ hreq'.path_with_query = hreq.path_with_query
          /\ hreq'.headers = hreq.headers
          /\ LastConversion.res = "Ok" =>
                /\ hreq'.body = None
                /\ LastConversion.incoming.body =
                      IF hreq.body.some THEN SuppliedBody(hreq.body.v) ELSE EmptyBody
          /\ Cardinality(WithSuppliedBody(converted')) <= 1
          /\ \A i \in WithSuppliedBody(converted') :
                \A j \in DOMAIN converted' :
                    (j > i /\ converted'[j].res = "Ok") =>
                        converted'[j].incoming.body = EmptyBody
      ]_vars

\* C13 witness: the outgoing request was converted twice; the first
\* incoming request carries its body, the second the empty body.
C13_Witness ==
    /\ Len(converted) >= 2
    /\ converted[1].res = "Ok" /\ converted[2].res = "Ok"
    /\ converted[1].incoming.body = SuppliedBody(Body_ok)
    /\ converted[2].incoming.body = EmptyBody
    /\ hreq.body = None

\* The scheme and the path as the parsed Uri shows them: a standard scheme
\* in lower case, / for the empty path.
SchemeShown(t) ==
    IF to_ascii_lowercase(t) \in {Text_http, Text_https} THEN to_ascii_lowercase(t)
    ELSE t
PathShown(t) == IF t = <<>> THEN Text_slash ELSE t

\* C15: new_request builds the URI scheme://authority+path with "http" for
\* Http or no scheme, "https" for Https, s for Other(s), localhost:3000
\* for no authority and / for no path (a standard scheme shown in lower
\* case, the empty path as /); method and headers are copied in order; a
\* conversion that fails returns an error and never panics.
C15_UriBuiltOrTypedFailure ==
    [][ Converting =>
          /\ LastConversion.res \in {"Ok", "Err"}
          /\ LastConversion.res = "Ok" =>
                LET uri == LastConversion.incoming.uri
                    sc == hreq.scheme
                IN /\ UriText(uri) =
                         (IF ~sc.some \/ sc.v.tag = "http" THEN Text_http
                          ELSE IF sc.v.tag = "https" THEN Text_https
                          ELSE SchemeShown(sc.v.other))
                            \o Text_sep
                            \o unwrap_or(hreq.authority, Text_localhost)
                            \o PathShown(unwrap_or(hreq.path_with_query, Text_slash))
                   /\ LastConversion.incoming.headers = hreq.headers
                   /\ LastConversion.incoming.method =
                         (CASE hreq.method.tag = "get" -> Method_GET
                            [] hreq.method.tag = "head" -> Method_HEAD
                            [] hreq.method.tag = "post" -> Method_POST
                            [] OTHER -> hreq.method.other)
      ]_vars


(***************************************************************************)
(* Claims about the fixed-topology build                                   *)
(***************************************************************************)
Fixed == driver = "encode_composition"
IsInst(n) == n.kind = "inst"
InstNames(g) ==
    LET q == SelectSeq(g.nodes, IsInst) IN [i \in DOMAIN q |-> q[i].pname]
IsPrefix(a, b) == Len(a) <= Len(b) /\ a = SubSeq(b, 1, Len(a))
TopologyOrder == <<"virt", "app", "router", "test">>
InstantiationOrder == <<"virt", "wasi_virt", "app", "router", "test">>
AllowedWiring ==
    {<<"virt", "app">>, <<"virt", "router">>, <<"app", "router">>,
     <<"router", "test">>, <<"virt", "test">>}
WiringOf(g, e) == <<g.nodes[g.nodes[e.src].src].pname, g.nodes[e.dst].pname>>
DependsOn(g) == {<<g.nodes[e.src].src, e.dst>> : e \in g.edges}
RECURSIVE Reaches(_, _)
Reaches(R, n) ==
    IF n = 0 THEN R
    ELSE Reaches(R \cup {<<x[1][1], x[2][2]>> : x \in {y \in R \X R : y[1][2] = y[2][1]}},
                 n - 1)

BuildStep(order) ==
    /\ IsPrefix(graph.nodes, graph'.nodes)
    /\ graph.edges \subseteq graph'.edges
    /\ graph.registered \subseteq graph'.registered
    /\ graph.exported \subseteq graph'.exported
    /\ IsPrefix(InstNames(graph'), order)
    /\ \A e \in graph'.edges :
          /\ graph'.nodes[e.src].kind = "alias"
          /\ graph'.nodes[e.dst].kind = "inst"
          /\ graph'.nodes[e.src].src < e.dst
          /\ WiringOf(graph', e) \in AllowedWiring
    /\ \A p \in Reaches(DependsOn(graph'), Len(order)) : p[1] # p[2]
    /\ (graph'.exported # {} \/ artifact'.encoded) => InstNames(graph') = order
    /\ graph.exported # {} => InstNames(graph') = InstNames(graph)
    /\ \A x \in graph'.exported :
          /\ x[2] = Run
          /\ graph'.nodes[x[1]].kind = "alias"
          /\ graph'.nodes[graph'.nodes[x[1]].src].pname = "test"

\* C16 as stated: throughout encode_composition the graph only grows; the
\* instances are created in the order shim, app, router, test harness;
\* every argument edge comes from an export of an instance created before
\* the instance it is passed to, along app <- shim, router <- shim and app,
\* harness <- router and shim; no instance depends on itself; the run
\* export is marked and the graph encoded only when all of them are
\* instantiated, and none is instantiated afterwards.
C16_FourInstancesInOrder == [][Fixed => BuildStep(TopologyOrder)]_vars

\* C16: as above, with the instances created in the order shim, WASI shim,
\* app, router, test harness: the WASI shim is instantiated second and no
\* edge leaves or enters it.
C16_TopologicalBuild == [][Fixed => BuildStep(InstantiationOrder)]_vars

\* C16 witness: the build is done with the artifact encoded, all five
\* instantiated and every kind of wiring present.
C16_Witness ==
    /\ Fixed
    /\ pc = "done"
    /\ artifact.encoded
    /\ InstNames(graph) = InstantiationOrder
    /\ {WiringOf(graph, e) : e \in graph.edges} = AllowedWiring
    /\ graph.exported # {}

AppTable == [i \in DOMAIN AppCapabilities |-> <<AppCapabilities[i], "virt">>]
RouterTable == <<<<SetComponentId, "virt">>, <<IncomingHandler, "app">>>>
TestTable ==
    <<<<IncomingHandler, "router">>, <<OutgoingHandler, "virt">>, <<KeyValue, "virt">>,
      <<KeyValueCalls, "virt">>, <<HttpHandler, "virt">>>>
CapabilityTable(c) ==
    CASE c = "app" -> AppTable
      [] c = "router" -> RouterTable
      [] OTHER -> TestTable
Consumers == {"app", "router", "test"}
RowAbsent(row) == ~HasItem(inputs[row[2]].exports, row[1])
AbsentRows(c) == {i \in DOMAIN CapabilityTable(c) : RowAbsent(CapabilityTable(c)[i])}
FirstAbsent(c) == CHOOSE k \in AbsentRows(c) : \A j \in AbsentRows(c) : k <= j
RowsBefore(c, k) == {CapabilityTable(c)[i][1] : i \in 1..(k - 1)}
RunAbsent == ~HasItem(inputs.test.exports, Run)

\* C20 as stated: when a provider lacks an export named in a consumer's
\* table, or the harness lacks run, encode_composition aborts before the
\* consumer is instantiated and encodes no artifact, whether or not the
\* consumer imports the name.
C20_AbsentExportAbortsBeforeConsumer ==
    [][ Fixed =>
          /\ \A c \in Consumers :
                (pc = c /\ AbsentRows(c) # {}) =>
                    /\ pc' = "panicked"
                    /\ ~artifact'.encoded
                    /\ InstNames(graph') = InstNames(graph)
          /\ (pc = "run" /\ RunAbsent) => (pc' = "panicked" /\ ~artifact'.encoded)
          /\ pc # "panicked"
      ]_vars

\* C20: when a provider lacks an export named in a consumer's table, or
\* the harness lacks run, encode_composition aborts at that step and
\* encodes no artifact, whether or not the consumer imports the name: the
\* consumer's instantiate call returns no instance, no argument from the
\* absent row on is wired, and nothing runs afterwards. The consumer's
\* node may already be in the graph.
C20_AbsentExportAborts ==
    [][ Fixed =>
          /\ \A c \in Consumers :
                (pc = c /\ AbsentRows(c) # {}) =>
                    /\ pc' = "panicked"
                    /\ ~artifact'.encoded
                    /\ lastCall'.pname = c
                    /\ lastCall'.res # "Ok"
                    /\ handles' = handles
                    /\ \A e \in graph'.edges \ graph.edges :
                          e.arg \in RowsBefore(c, FirstAbsent(c))
          /\ (pc = "run" /\ RunAbsent) =>
                (pc' = "panicked" /\ ~artifact'.encoded /\ graph' = graph)
          /\ pc # "panicked"
      ]_vars

\* C20 witness: the build has aborted in the instantiation of the app on
\* an export the shim lacks and the app does not import; the app's node is
\* in the graph.
C20_Witness ==
    /\ Fixed
    /\ pc = "panicked"
    /\ lastCall.op = "instantiate"
    /\ lastCall.pname = "app"
    /\ lastCall.res = "Panic"
    /\ ~HasItem(inputs.app.imports, lastCall.args[lastCall.at].name)
    /\ "app" \in Range(InstNames(graph))
    /\ ~artifact.encoded

=============================================================================
